---- MODULE Spec2Model ----
(***************************************************************************)
(* hamirc: a KISS TNC transport (frame codec, stream tokenizer, 8-port     *)
(* multiplexer) bridged to a minimal IRC server.                           *)
(*                                                                         *)
(* The module holds several state machines over one set of variables:      *)
(*   SpecCodec  port.Write / FrameEncode followed by the router's decode   *)
(*   SpecTok    Split driven over a chunked byte stream (bufio.Scanner)    *)
(*   SpecMux    TNC.router, TNC.enqueue, port.Read and the port queues     *)
(*   SpecIrc    local connections, the Directory and the command handlers  *)
(*   SpecBridge the radio bridge task next to the connections              *)
(*   SpecLock   the statements of the tasks around the Directory lock      *)
(*   SpecSnap   Server.Save and Server.Load next to the connections        *)
(*   SpecArgs   command lines with missing parameters                      *)
(*   SpecLink   the router, the bridge task's reads and Server.Serve       *)
(*   SpecJoin   NICK, USER and JOIN over two channel names                 *)
(*   SpecOut    User.Write and the tasks that write to one user            *)
(*   SpecRead   port.Read into the buffer of the bridge task               *)
(* A specification leaves the variables of the others at their initial     *)
(* values.                                                                 *)
(***************************************************************************)
EXTENDS Integers, Sequences, FiniteSets, TLC

VARIABLES
    \* ---- SpecCodec
    cport,      \* port id 0..7 of the port written to
    cdata,      \* payload handed to port.Write
    cpc,        \* "start" | "written" | "decoded"
    cwire,      \* bytes that reached the transport
    cn,         \* n returned by port.Write
    cerr,       \* err returned by port.Write
    crouted,    \* <<port, data>> the router would enqueue, or <<>>
    \* ---- SpecTok
    stream,     \* the whole byte stream of the run
    tRest,      \* bytes of the stream that have not arrived yet
    tBuf,       \* arrived, not yet consumed bytes (the scanner's buffer)
    tEofSeen,   \* the driver has seen the end of the stream
    tpc,        \* "split" | "fetch" | "done"
    tOut,       \* tokens and errors produced so far
    tConsumed,  \* consumed byte counts, one per Split call that consumed
    lastBuf,    \* argument of the last Split call
    lastEof,    \* atEOF of the last Split call
    lastRes,    \* result of the last Split call
    \* ---- SpecMux
    wire,       \* bytes in flight on the transport, not yet read
    tClosed,    \* the transport has ended (reads past the wire give EOF)
    nseg,       \* number of segments the transport has delivered
    sbuf,       \* the router's scanner buffer
    serr,       \* the router's scanner has seen the transport's end
    rpc,        \* position of the router task
    rport,      \* port of the frame being enqueued
    rdata,      \* data of the frame being enqueued
    ci,         \* index of the close loop
    queue,      \* queue[p]: frames buffered on port p, oldest first
    closeCount, \* closeCount[p]: times port p's queue was closed
    enq,        \* enq[p]: every frame ever sent on queue p, in order
    nread,      \* nread[p]: frames handed to readers of port p
    ndrop,      \* ndrop[p]: frames the router discarded from queue p
    lastRead,   \* result of the last port.Read
    framingErr, \* Split returned an error
    \* ---- SpecIrc
    cstate,     \* cstate[c]: "open" | "blocked" (waits for the lock forever) | "closed"
    uNick,      \* uNick[c]: User.Nick of connection c's user
    uCall,      \* uCall[c]: User.Callsign
    Users,      \* Server.Users: lowercase nick -> user
    Channels,   \* Server.Channels: name -> [Users: key -> user, Topic]
    mu,         \* Server.Mutex: 0 when free, else the connection holding it
    welcomes,   \* welcomes[c]: RPL_WELCOME replies sent to c
    regBy,      \* regBy[c]: the command whose handler accepted c, or ""
    lastCmd,    \* what the last command handler did
    \* the radio bridge (Server.handleTNC)
    autoJoin,   \* Server.AutoJoin
    bridge,     \* position of the bridge task: run, blocked, panic
    lastFrame,  \* what the bridge did with the last frame it read
    \* the tasks around the Directory lock (SpecLock)
    lockOwner,  \* the task inside Server.Lock .. Server.Unlock, or 0
    taskPc,     \* taskPc[t]: the statement task t is executing
    fatal,      \* the runtime has stopped the process
    \* the snapshot (Server.Save, Server.Load)
    file,       \* content of the state file
    lastLoad,   \* the server the last Load ran on, and how it ended
    \* Server.Serve (SpecLink)
    served,     \* the error Serve has returned, or ""
    \* one user's output path (User.Write, SpecOut)
    ubuf,       \* User.buf: the bufio.Writer's bytes, count and sticky error
    connOut,    \* the pieces written to the user's connection, in order
    wpc,        \* wpc[t]: the call of its program task t is in, and where
    \* the bridge's read buffer (port.Read as handleTNC calls it, SpecRead)
    rdArr,      \* the array behind buf, cap(buf) bytes
    rdRes       \* the last port.Read: the frame, n, and buf[:n] as handleTNC takes it

codecVars == <<cport, cdata, cpc, cwire, cn, cerr, crouted>>
tokVars == <<stream, tRest, tBuf, tEofSeen, tpc, tOut, tConsumed, lastBuf, lastEof, lastRes>>
muxVars == <<wire, tClosed, nseg, sbuf, serr, rpc, rport, rdata, ci, queue, closeCount,
             enq, nread, ndrop, lastRead, framingErr>>
ircVars == <<cstate, uNick, uCall, Users, Channels, mu, welcomes, regBy, lastCmd>>
brVars == <<autoJoin, bridge, lastFrame>>
lockVars == <<lockOwner, taskPc, fatal>>
snapVars == <<file, lastLoad>>
linkVars == <<served>>
outVars == <<ubuf, connOut, wpc>>
readVars == <<rdArr, rdRes>>
extVars == <<lockVars, snapVars, linkVars, outVars, readVars>>
vars == <<codecVars, tokVars, muxVars, ircVars, brVars, extVars>>

----------------------------------------------------------------------------
(* KISS constants *)

FEND == 192
FESC == 219
TFEND == 220
TFESC == 221
MinFrame == 14
NumPorts == 8
\* the -tncport flag's default: the port the bridge reads
TncPort == 0

\* Bounds of the model.
MaxHead == 2
MaxFill == 14
TokMaxSegs == 2
MuxMaxSegs == 3
MaxConns == 2
\* cap(p.queue): QueueDepth is 512 in the code, scaled down here
QueueDepth == 2
\* Pieces a user's bufio.Writer holds: 4096 bytes in the code, far more than
\* the lines written to it; scaled down to the pieces written here
WCap == 6
\* handleTNC's read buffer: len(buf) is 1024 and cap(buf) 512 * 1024 in the
\* code; the scanner hands on frames of up to 64 * 1024 bytes, more than
\* len(buf) and less than cap(buf).  Scaled down here.
BufLen == 2
BufCap == 5
MaxRead == 4
\* Rounds of handleTNC's loop
MaxRounds == 3

NoErr == "nil"
ErrIncompleteFrame == "incomplete KISS frame"
ErrIncompleteEscape == "incomplete escape sequence"
ErrInvalidEscape == "invalid escape sequence"
ErrTransport == "transport write failed"

Ports == 0 .. (NumPorts - 1)

Zeros(n) == [i \in 1 .. n |-> 0]

\* uint8 arithmetic of p.id<<4 and frame[0]>>4
Shl4(b) == (b * 16) % 256
Shr4(b) == b \div 16

----------------------------------------------------------------------------
(* Frame codec *)

\* One payload byte as FrameEncode's switch writes it.
StuffByte(b) ==
    IF b = FEND THEN <<FESC, TFEND>>
    ELSE IF b = FESC THEN <<FESC, TFESC>>
    ELSE <<b>>

RECURSIVE Stuff(_)
Stuff(data) ==
    IF data = <<>> THEN <<>>
    ELSE StuffByte(Head(data)) \o Stuff(Tail(data))

\* bytes.NewBuffer(make([]byte, n)) starts with the n zero bytes of the
\* slice as its contents; the writes append to them.
NewBuffer(n) == Zeros(n)

Padding(data) ==
    IF Len(data) <= MinFrame THEN Zeros(MinFrame - Len(data)) ELSE <<>>

FrameEncode(portCmd, data) ==
    NewBuffer(Len(data) + 3) \o <<FEND, portCmd>> \o Stuff(data)
        \o Padding(data) \o <<FEND>>

----------------------------------------------------------------------------
(* Frame tokenizer *)

\* bytes.IndexByte, 0-based, -1 when absent
IndexByte(s, b) ==
    IF \E i \in 1 .. Len(s) : s[i] = b
    THEN (CHOOSE i \in 1 .. Len(s) : s[i] = b /\ \A j \in 1 .. (i - 1) : s[j] # b) - 1
    ELSE -1

\* data[lo:hi] of Go, 0-based, hi exclusive
Slice(s, lo, hi) == SubSeq(s, lo + 1, hi)

SplitResult(advance, token, err) == [advance |-> advance, token |-> token, err |-> err]

\* token: <<>> is nil, <<f>> is the frame f (f may be empty)
NilToken == <<>>

\* The escape loop of Split over rawFrame: "ok" with the frame,
\* "incomplete" or "invalid".
RECURSIVE Unescape(_, _)
Unescape(raw, acc) ==
    IF raw = <<>> THEN [st |-> "ok", frame |-> acc]
    ELSE IF raw[1] = FESC
    THEN IF Len(raw) < 2 THEN [st |-> "incomplete", frame |-> acc]
         ELSE IF raw[2] = TFEND THEN Unescape(Slice(raw, 2, Len(raw)), Append(acc, FEND))
         ELSE IF raw[2] = TFESC THEN Unescape(Slice(raw, 2, Len(raw)), Append(acc, FESC))
         ELSE [st |-> "invalid", frame |-> acc]
    ELSE Unescape(Tail(raw), Append(acc, raw[1]))

\* Variant of SplitToken that consumes the whole buffer, as the error
\* returns of Split do.
SplitTokenAll(data, end, frame) == SplitResult(Len(data), <<frame>>, NoErr)

\* return end + 1, frame, nil
SplitToken(data, end, frame) == SplitResult(end + 1, <<frame>>, NoErr)

\* return len(data), nil, errors.New("invalid escape sequence")
SplitInvalid(data, end) == SplitResult(Len(data), NilToken, ErrInvalidEscape)

\* Variant of SplitEof that consumes nothing
SplitEofNone(data, err) == SplitResult(0, NilToken, err)

\* The returns of Split at the end of the stream: return len(data), nil, err
SplitEof(data, err) == SplitResult(Len(data), NilToken, err)

Split(data, atEOF) ==
    IF atEOF /\ Len(data) = 0 THEN SplitResult(0, NilToken, NoErr)
    ELSE LET start == IndexByte(data, FEND) IN
      IF start = -1
      THEN IF atEOF THEN SplitEof(data, NoErr)
           ELSE SplitResult(0, NilToken, NoErr)
      ELSE LET rel == IndexByte(Slice(data, start + 1, Len(data)), FEND) IN
        IF rel = -1
        THEN IF atEOF THEN SplitEof(data, ErrIncompleteFrame)
             ELSE SplitResult(0, NilToken, NoErr)
        ELSE LET end == rel + start + 1
                 rawFrame == Slice(data, start + 1, end)
                 u == Unescape(rawFrame, <<>>)
             IN CASE u.st = "incomplete" ->
                       IF atEOF THEN SplitEof(data, ErrIncompleteEscape)
                       ELSE SplitResult(0, NilToken, NoErr)
                  [] u.st = "invalid" -> SplitInvalid(data, end)
                  [] OTHER -> SplitToken(data, end, u.frame)

----------------------------------------------------------------------------
(* bufio.Scanner as TNC.router drives it: one pass of the loop of Scan over
   the buffered bytes.  next is "token" (Scan returns true), "stop" (Scan
   returns false: a split error, or nothing left at the end of the input)
   or "read" (more input is needed). *)

NoResult == SplitResult(0, NilToken, "none")

Drop(buf, n) == SubSeq(buf, n + 1, Len(buf))

ScanStep(buf, eof) ==
    IF Len(buf) > 0 \/ eof
    THEN LET r == Split(buf, eof) IN
         IF r.err # NoErr THEN [res |-> r, buf |-> buf, next |-> "stop"]
         ELSE IF r.token # NilToken
              THEN [res |-> r, buf |-> Drop(buf, r.advance), next |-> "token"]
         ELSE IF eof THEN [res |-> r, buf |-> <<>>, next |-> "stop"]
         ELSE [res |-> r, buf |-> Drop(buf, r.advance), next |-> "read"]
    ELSE [res |-> NoResult, buf |-> buf, next |-> "read"]

\* frame := scanner.Bytes(); port := frame[0] >> 4; enqueue(port, frame[1:])
RouteFrame(frame) == [port |-> Shr4(frame[1]), data |-> Tail(frame)]

----------------------------------------------------------------------------
(* Idle values: what a specification gives the variables it does not use *)

CodecIdle ==
    /\ cport = 0
    /\ cdata = <<>>
    /\ cpc = "idle"
    /\ cwire = <<>>
    /\ cn = 0
    /\ cerr = NoErr
    /\ crouted = <<>>

TokIdle ==
    /\ stream = <<>>
    /\ tRest = <<>>
    /\ tBuf = <<>>
    /\ tEofSeen = FALSE
    /\ tpc = "idle"
    /\ tOut = <<>>
    /\ tConsumed = 0
    /\ lastBuf = <<>>
    /\ lastEof = FALSE
    /\ lastRes = NoResult

MuxIdle ==
    /\ wire = <<>>
    /\ tClosed = FALSE
    /\ nseg = 0
    /\ sbuf = <<>>
    /\ serr = FALSE
    /\ rpc = "idle"
    /\ rport = 0
    /\ rdata = <<>>
    /\ ci = 0
    /\ queue = [p \in Ports |-> <<>>]
    /\ closeCount = [p \in Ports |-> 0]
    /\ enq = [p \in Ports |-> <<>>]
    /\ nread = [p \in Ports |-> 0]
    /\ ndrop = [p \in Ports |-> 0]
    /\ lastRead = [port |-> 0, n |-> 0, frame |-> <<>>, err |-> "none"]
    /\ framingErr = FALSE

Conns == 1 .. MaxConns

EmptyMap == [k \in {} |-> 0]

NoCmd == [conn |-> 0, cmd |-> "", done |-> FALSE, regBefore |-> FALSE, replies |-> <<>>,
          tx |-> 0, changed |-> FALSE, to |-> {}]

\* NewServer(), and handleConnection's NewUser("", ...) for every connection
IrcIdle ==
    /\ cstate = [c \in Conns |-> "open"]
    /\ uNick = [c \in Conns |-> ""]
    /\ uCall = [c \in Conns |-> ""]
    /\ Users = EmptyMap
    /\ Channels = EmptyMap
    /\ mu = 0
    /\ welcomes = [c \in Conns |-> 0]
    /\ regBy = [c \in Conns |-> ""]
    /\ lastCmd = NoCmd

\* A frame as handleTNC sees it after parse: the fields of the identity
\* between its '!' and '@' separators, and the fields after the identity.
NoFrame == [frame |-> [id |-> <<>>, rest |-> <<>>], outcome |-> "none",
            delivered |-> {}, joined |-> {}, tx |-> 0]

\* NewServer() leaves AutoJoin false; the bridge task has read no frame
BridgeIdle ==
    /\ autoJoin = FALSE
    /\ bridge = "run"
    /\ lastFrame = NoFrame

\* The tasks of Server.Serve and main: one handler per connection, the
\* radio bridge (bridge), PingPong (ping), PersistState (save); main is the
\* owning process
Task == [bridge |-> MaxConns + 1, ping |-> MaxConns + 2, save |-> MaxConns + 3,
         main |-> MaxConns + 4]
Tasks == Conns \cup {Task.bridge, Task.ping, Task.save}

\* No state file, and no Load has run
NoFile == [Users |-> EmptyMap, Channels |-> EmptyMap, written |-> FALSE]
NoLoad == [on |-> "none", outcome |-> "none"]

\* The tasks that write to the output of connection 1's user: the user's own
\* connection task, another connection's task and the ping task
Writers == {1, MaxConns, Task.ping}

\* bufio.NewWriter: an empty buffer, nothing written, no task in a call
NewWriter == [buf |-> [i \in 1 .. WCap |-> ""], n |-> 0, err |-> FALSE]
WriterStart == [i |-> 1, st |-> "call", k |-> 0]

ExtIdle ==
    /\ lockOwner = 0
    /\ taskPc = [t \in Tasks |-> "idle"]
    /\ fatal = FALSE
    /\ file = NoFile
    /\ lastLoad = NoLoad
    /\ served = ""
    /\ ubuf = NewWriter
    /\ connOut = <<>>
    /\ wpc = [t \in Writers |-> WriterStart]
    /\ rdArr = [i \in 1 .. BufCap |-> 0]
    /\ rdRes = [frame |-> <<>>, n |-> 0, view |-> <<>>, reads |-> 0]

----------------------------------------------------------------------------
(* SpecCodec: port.Write of one payload on one port, then the router's
   decoding of the bytes that reached the transport *)

\* Payload bytes that exercise every branch of the codec.
SampleBytes == {0, 65, FEND, FESC, TFEND, TFESC}

Fill(k) == [i \in 1 .. k |-> 65]

Payloads ==
    { h \o Fill(k) : h \in UNION { [1 .. n -> SampleBytes] : n \in 0 .. MaxHead },
                     k \in 0 .. MaxFill }

InitCodec ==
    /\ cport \in Ports
    /\ cdata \in Payloads
    /\ cpc = "start"
    /\ cwire = <<>>
    /\ cn = 0
    /\ cerr = NoErr
    /\ crouted = <<>>
    /\ TokIdle
    /\ MuxIdle
    /\ IrcIdle
    /\ BridgeIdle
    /\ ExtIdle

\* n and err of port.Write, given the error of the transport's Write
WriteResult(data, err) ==
    [n |-> IF err # NoErr THEN Len(data) ELSE 0, err |-> err]

PortWrite(ok) ==
    /\ cpc = "start"
    /\ LET r == WriteResult(cdata, IF ok THEN NoErr ELSE ErrTransport) IN
         /\ cn' = r.n
         /\ cerr' = r.err
    /\ cwire' = IF ok THEN FrameEncode(Shl4(cport), cdata) ELSE <<>>
    /\ cpc' = "written"
    /\ UNCHANGED <<cport, cdata, crouted>>
    /\ UNCHANGED <<tokVars, muxVars, ircVars, brVars, extVars>>

\* The peer's router reads the written bytes in one piece and takes the
\* first token.
RouterDecode ==
    /\ cpc = "written"
    /\ cerr = NoErr
    /\ LET s == ScanStep(cwire, FALSE) IN
         /\ s.next = "token"
         /\ Len(s.res.token[1]) > 0
         /\ crouted' = RouteFrame(s.res.token[1])
    /\ cpc' = "decoded"
    /\ UNCHANGED <<cport, cdata, cwire, cn, cerr>>
    /\ UNCHANGED <<tokVars, muxVars, ircVars, brVars, extVars>>

NextCodec ==
    \/ \E ok \in BOOLEAN : PortWrite(ok)
    \/ RouterDecode

SpecCodec == InitCodec /\ [][NextCodec]_vars

\* C1: for every port and payload p, the frame the router takes from the
\* bytes of FrameEncode(port<<4, p), without its port byte, is exactly p.
C1_RoundTrip ==
    cpc = "decoded" => crouted.data = cdata

\* C2: FrameEncode returns exactly FEND, portCmd, the stuffed payload, the
\* zero padding to 14 bytes and a closing FEND, and nothing else; the
\* encoding of port 2 with payload C0 41 is C0 20 DB DC 41, twelve zero
\* bytes, C0.
C2_Expected(portCmd, data) ==
    <<FEND, portCmd>> \o Stuff(data) \o Padding(data) \o <<FEND>>

C2_EncodeExact ==
    (cpc = "written" /\ cerr = NoErr) =>
        /\ cwire = C2_Expected(Shl4(cport), cdata)
        /\ cwire[1] = FEND
        /\ cwire[2] = Shl4(cport)
        /\ (cport = 2 /\ cdata = <<192, 65>>) =>
              cwire = <<192, 32, 219, 220, 65>> \o Zeros(12) \o <<192>>

\* C8: port.Write reports len(data) bytes written, with no error when the
\* transport write succeeds and with the transport's error when it fails.
C8_WriteCount ==
    cpc \in {"written", "decoded"} =>
        /\ cn = Len(cdata)
        /\ (cwire # <<>>) => cerr = NoErr
        /\ (cwire = <<>>) => cerr = ErrTransport

----------------------------------------------------------------------------
(* Byte streams of the transport: concatenations of segments *)

SegmentKinds == <<
    <<FEND, 0, 65, FEND>>,                  \* frame, port 0, data 41
    <<FEND, 0, FESC, TFESC, 66, FEND>>,     \* frame, port 0, data DB 42
    <<FEND, 16, FESC, TFEND, FEND>>,        \* frame, port 1, data C0
    <<FEND, 0, FESC, 65, FEND>>,            \* invalid escape DB 41
    <<FEND, 0, FESC, FEND>>,                \* escape right before the closing FEND
    <<FEND, FEND>>,                         \* two adjacent delimiters
    <<FEND, 128, 65, FEND>>,                \* port nibble 8
    <<65>>,                                 \* noise outside a frame
    <<FEND, 0, 66>>,                        \* frame without its closing FEND
    <<FEND, 0, FESC, 65, FESC, FEND>> >>    \* invalid escape, then an escape before FEND

SegIds == 1 .. Len(SegmentKinds)

RECURSIVE Concat(_)
Concat(ids) ==
    IF ids = <<>> THEN <<>>
    ELSE SegmentKinds[Head(ids)] \o Concat(Tail(ids))

Streams(n) == { Concat(ids) : ids \in UNION { [1 .. k -> SegIds] : k \in 0 .. n } }

----------------------------------------------------------------------------
(* SpecTok: Split driven as bufio.Scanner drives it, over a stream that
   arrives in chunks of any size *)

InitTok ==
    /\ stream \in Streams(TokMaxSegs)
    /\ tRest = stream
    /\ tBuf = <<>>
    /\ tEofSeen = FALSE
    /\ tpc = "split"
    /\ tOut = <<>>
    /\ tConsumed = 0
    /\ lastBuf = <<>>
    /\ lastEof = FALSE
    /\ lastRes = NoResult
    /\ CodecIdle
    /\ MuxIdle
    /\ IrcIdle
    /\ BridgeIdle
    /\ ExtIdle

\* What a pass of the scanner adds to the tokens and errors seen so far.
Emit(out, res) ==
    IF res.token # NilToken \/ res.err \notin {NoErr, "none"}
    THEN Append(out, res)
    ELSE out

TokSplit ==
    /\ tpc = "split"
    /\ LET s == ScanStep(tBuf, tEofSeen) IN
         /\ tBuf' = s.buf
         /\ tOut' = Emit(tOut, s.res)
         /\ tConsumed' = tConsumed + (Len(tBuf) - Len(s.buf))
         /\ tpc' = CASE s.next = "token" -> "split"
                     [] s.next = "read" -> "fetch"
                     [] OTHER -> "done"
         /\ IF s.res = NoResult
            THEN UNCHANGED <<lastBuf, lastEof, lastRes>>
            ELSE /\ lastBuf' = tBuf
                 /\ lastEof' = tEofSeen
                 /\ lastRes' = s.res
    /\ UNCHANGED <<stream, tRest, tEofSeen>>
    /\ UNCHANGED <<codecVars, muxVars, ircVars, brVars, extVars>>

TokFetchBytes(k) ==
    /\ tpc = "fetch"
    /\ k \in 1 .. Len(tRest)
    /\ tBuf' = tBuf \o SubSeq(tRest, 1, k)
    /\ tRest' = Drop(tRest, k)
    /\ tpc' = "split"
    /\ UNCHANGED <<stream, tEofSeen, tOut, tConsumed, lastBuf, lastEof, lastRes>>
    /\ UNCHANGED <<codecVars, muxVars, ircVars, brVars, extVars>>

TokFetchEof ==
    /\ tpc = "fetch"
    /\ tRest = <<>>
    /\ tEofSeen' = TRUE
    /\ tpc' = "split"
    /\ UNCHANGED <<stream, tRest, tBuf, tOut, tConsumed, lastBuf, lastEof, lastRes>>
    /\ UNCHANGED <<codecVars, muxVars, ircVars, brVars, extVars>>

NextTok ==
    \/ TokSplit
    \/ \E k \in 1 .. Len(tRest) : TokFetchBytes(k)
    \/ TokFetchEof

SpecTok == InitTok /\ [][NextTok]_vars

\* The same driver with the whole stream available at the first call.
RECURSIVE WholeRun(_, _, _)
WholeRun(buf, eof, out) ==
    LET s == ScanStep(buf, eof)
        out2 == Emit(out, s.res)
    IN CASE s.next = "token" -> WholeRun(s.buf, eof, out2)
         [] s.next = "read" -> WholeRun(s.buf, TRUE, out2)
         [] OTHER -> out2

\* C3: however the stream is cut into chunks, the tokens, the errors and
\* the consumed byte counts are those of a run over the whole stream; a
\* call that returns neither token nor error before the end of the stream
\* consumes nothing.
C3_Restartable ==
    /\ tpc = "done" => tOut = WholeRun(stream, FALSE, <<>>)
    /\ (lastRes.token = NilToken /\ lastRes.err = NoErr /\ ~lastEof) => lastRes.advance = 0

\* The second half of C3 alone.
C3_WaitConsumesNothing ==
    (lastRes.token = NilToken /\ lastRes.err = NoErr /\ ~lastEof) => lastRes.advance = 0

\* 1-based positions of the first two delimiters of buf
C4_Start(buf) == IndexByte(buf, FEND) + 1
C4_End(buf) == CHOOSE e \in (C4_Start(buf) + 1) .. Len(buf) :
    /\ buf[e] = FEND
    /\ \A i \in (C4_Start(buf) + 1) .. (e - 1) : buf[i] # FEND

RECURSIVE C4_WellStuffed(_)
C4_WellStuffed(raw) ==
    IF raw = <<>> THEN TRUE
    ELSE IF raw[1] = FESC
    THEN Len(raw) >= 2 /\ raw[2] \in {TFEND, TFESC} /\ C4_WellStuffed(Drop(raw, 2))
    ELSE C4_WellStuffed(Tail(raw))

\* buf holds a well-formed frame directly followed by the start of another
C4_TwoFrames(buf) ==
    /\ IndexByte(buf, FEND) # -1
    /\ \E e \in (C4_Start(buf) + 1) .. (Len(buf) - 1) : buf[e] = FEND
    /\ C4_WellStuffed(SubSeq(buf, C4_Start(buf) + 1, C4_End(buf) - 1))
    /\ C4_End(buf) < Len(buf)
    /\ buf[C4_End(buf) + 1] = FEND

\* C4: on a buffer holding a well-formed frame followed by the bytes of a
\* second frame, Split returns the first frame's unescaped interior and
\* consumes up to just past the first frame's closing delimiter, so that the
\* second frame's bytes all remain.
C4_FirstFrameOnly ==
    (lastRes # NoResult /\ C4_TwoFrames(lastBuf)) =>
        /\ lastRes.err = NoErr
        /\ lastRes.token # NilToken
        /\ lastRes.advance = C4_End(lastBuf)
        /\ Stuff(lastRes.token[1]) = SubSeq(lastBuf, C4_Start(lastBuf) + 1, C4_End(lastBuf) - 1)
        /\ Drop(lastBuf, lastRes.advance)[1] = FEND

\* A call on a buffer with an escaped first frame and a whole second frame.
C4_Witness ==
    /\ lastRes # NoResult
    /\ C4_TwoFrames(lastBuf)
    /\ lastRes.token = << <<0, FESC, 66>> >>
    /\ Len(lastBuf) - lastRes.advance >= 4

----------------------------------------------------------------------------
(* SpecMux: the router task of NewTNC, the port queues and their readers.
   The transport delivers segments and may end at any time. *)

MuxSegIds == {1, 2, 3, 4, 5, 6, 7}

InitMux ==
    /\ wire = <<>>
    /\ tClosed = FALSE
    /\ nseg = 0
    /\ sbuf = <<>>
    /\ serr = FALSE
    /\ rpc = "scan"
    /\ rport = 0
    /\ rdata = <<>>
    /\ ci = 0
    /\ queue = [p \in Ports |-> <<>>]
    /\ closeCount = [p \in Ports |-> 0]
    /\ enq = [p \in Ports |-> <<>>]
    /\ nread = [p \in Ports |-> 0]
    /\ ndrop = [p \in Ports |-> 0]
    /\ lastRead = [port |-> 0, n |-> 0, frame |-> <<>>, err |-> "none"]
    /\ framingErr = FALSE
    /\ CodecIdle
    /\ TokIdle
    /\ IrcIdle
    /\ BridgeIdle
    /\ ExtIdle

\* The transport's peer sends one more segment.
Deliver(id) ==
    /\ ~tClosed
    /\ nseg < MuxMaxSegs
    /\ wire' = wire \o SegmentKinds[id]
    /\ nseg' = nseg + 1
    /\ UNCHANGED <<tClosed, sbuf, serr, rpc, rport, rdata, ci, queue, closeCount,
                   enq, nread, ndrop, lastRead, framingErr>>
    /\ UNCHANGED <<codecVars, tokVars, ircVars, brVars, extVars>>

\* The transport ends: reads past the bytes in flight report EOF.
TransportClose ==
    /\ ~tClosed
    /\ tClosed' = TRUE
    /\ UNCHANGED <<wire, nseg, sbuf, serr, rpc, rport, rdata, ci, queue, closeCount,
                   enq, nread, ndrop, lastRead, framingErr>>
    /\ UNCHANGED <<codecVars, tokVars, ircVars, brVars, extVars>>

\* for scanner.Scan() { frame := scanner.Bytes(); port := frame[0] >> 4; ... }
RouterScan ==
    /\ rpc = "scan"
    /\ LET s == ScanStep(sbuf, serr) IN
         /\ sbuf' = s.buf
         /\ framingErr' = (framingErr \/ s.res.err \notin {NoErr, "none"})
         /\ CASE s.next = "token" ->
                   IF Len(s.res.token[1]) = 0
                   THEN /\ rpc' = "panic"      \* frame[0]: index out of range
                        /\ UNCHANGED <<rport, rdata, ci>>
                   ELSE /\ rpc' = "enq_check"
                        /\ rport' = RouteFrame(s.res.token[1]).port
                        /\ rdata' = RouteFrame(s.res.token[1]).data
                        /\ ci' = ci
              [] s.next = "read" ->
                   /\ rpc' = "read"
                   /\ UNCHANGED <<rport, rdata, ci>>
              [] OTHER ->
                   /\ rpc' = "closing"
                   /\ ci' = 0
                   /\ UNCHANGED <<rport, rdata>>
    /\ UNCHANGED <<wire, tClosed, nseg, serr, queue, closeCount, enq, nread, ndrop, lastRead>>
    /\ UNCHANGED <<codecVars, tokVars, ircVars, brVars, extVars>>

\* The scanner's Read on the transport returns k of the bytes in flight.
RouterRead(k) ==
    /\ rpc = "read"
    /\ k \in 1 .. Len(wire)
    /\ sbuf' = sbuf \o SubSeq(wire, 1, k)
    /\ wire' = Drop(wire, k)
    /\ rpc' = "scan"
    /\ UNCHANGED <<tClosed, nseg, serr, rport, rdata, ci, queue, closeCount,
                   enq, nread, ndrop, lastRead, framingErr>>
    /\ UNCHANGED <<codecVars, tokVars, ircVars, brVars, extVars>>

\* The scanner's Read on the ended transport returns its error.
RouterReadEof ==
    /\ rpc = "read"
    /\ wire = <<>>
    /\ tClosed
    /\ serr' = TRUE
    /\ rpc' = "scan"
    /\ UNCHANGED <<wire, tClosed, nseg, sbuf, rport, rdata, ci, queue, closeCount,
                   enq, nread, ndrop, lastRead, framingErr>>
    /\ UNCHANGED <<codecVars, tokVars, ircVars, brVars, extVars>>

\* cap(p.queue) - len(p.queue)
free(q) == QueueDepth - Len(q)

\* Variant of Discard that drops the newest queued frame.
DiscardNewest(q) == SubSeq(q, 1, Len(q) - 1)

\* <-t.ports[port].queue
Discard(q) == Tail(q)

\* enqueue: if t.ports[port].free() == 0
EnqCheck ==
    /\ rpc = "enq_check"
    /\ rpc' = IF rport \notin Ports THEN "panic"      \* t.ports[port]: index out of range
              ELSE IF free(queue[rport]) = 0 THEN "enq_discard"
              ELSE "enq_send"
    /\ UNCHANGED <<wire, tClosed, nseg, sbuf, serr, rport, rdata, ci, queue, closeCount,
                   enq, nread, ndrop, lastRead, framingErr>>
    /\ UNCHANGED <<codecVars, tokVars, ircVars, brVars, extVars>>

\* enqueue: <-t.ports[port].queue, a receive that waits for a frame
EnqDiscard ==
    /\ rpc = "enq_discard"
    /\ queue[rport] # <<>>
    /\ queue' = [queue EXCEPT ![rport] = Discard(@)]
    /\ ndrop' = [ndrop EXCEPT ![rport] = @ + 1]
    /\ rpc' = "enq_send"
    /\ UNCHANGED <<wire, tClosed, nseg, sbuf, serr, rport, rdata, ci, closeCount,
                   enq, nread, lastRead, framingErr>>
    /\ UNCHANGED <<codecVars, tokVars, ircVars, brVars, extVars>>

\* enqueue: t.ports[port].queue <- data, a send that waits for room
EnqSend ==
    /\ rpc = "enq_send"
    /\ Len(queue[rport]) < QueueDepth
    /\ queue' = [queue EXCEPT ![rport] = Append(@, rdata)]
    /\ enq' = [enq EXCEPT ![rport] = Append(@, rdata)]
    /\ rpc' = "scan"
    /\ UNCHANGED <<wire, tClosed, nseg, sbuf, serr, rport, rdata, ci, closeCount,
                   nread, ndrop, lastRead, framingErr>>
    /\ UNCHANGED <<codecVars, tokVars, ircVars, brVars, extVars>>

\* for i := range t.ports { close(t.ports[i].queue) }
RouterClose ==
    /\ rpc = "closing"
    /\ closeCount' = [closeCount EXCEPT ![ci] = @ + 1]
    /\ ci' = ci + 1
    /\ rpc' = IF ci + 1 = NumPorts THEN "done" ELSE "closing"
    /\ UNCHANGED <<wire, tClosed, nseg, sbuf, serr, rport, rdata, queue,
                   enq, nread, ndrop, lastRead, framingErr>>
    /\ UNCHANGED <<codecVars, tokVars, ircVars, brVars, extVars>>

\* Variant of Receive that takes the newest frame
ReceiveNewest(q) == [frame |-> q[Len(q)], rest |-> SubSeq(q, 1, Len(q) - 1)]

\* <-p.queue on a queue that holds a frame: the oldest frame, and what stays
Receive(q) == [frame |-> Head(q), rest |-> Tail(q)]

\* port.Read: frame, ok := <-p.queue; a receive on an empty open queue waits
PortRead(p) ==
    /\ \/ /\ queue[p] # <<>>
          /\ queue' = [queue EXCEPT ![p] = Receive(@).rest]
          /\ nread' = [nread EXCEPT ![p] = @ + 1]
          /\ lastRead' = [port |-> p, n |-> Len(Receive(queue[p]).frame),
                          frame |-> Receive(queue[p]).frame, err |-> NoErr]
       \/ /\ queue[p] = <<>>
          /\ closeCount[p] > 0
          /\ lastRead' = [port |-> p, n |-> 0, frame |-> <<>>, err |-> "EOF"]
          /\ UNCHANGED <<queue, nread>>
    /\ UNCHANGED <<wire, tClosed, nseg, sbuf, serr, rpc, rport, rdata, ci, closeCount,
                   enq, ndrop, framingErr>>
    /\ UNCHANGED <<codecVars, tokVars, ircVars, brVars, extVars>>

NextMux ==
    \/ \E id \in MuxSegIds : Deliver(id)
    \/ TransportClose
    \/ RouterScan
    \/ \E k \in 1 .. Len(wire) : RouterRead(k)
    \/ RouterReadEof
    \/ EnqCheck
    \/ EnqDiscard
    \/ EnqSend
    \/ RouterClose
    \/ \E p \in Ports : PortRead(p)

SpecMux == InitMux /\ [][NextMux]_vars

\* C5: a framing error does not stop the router: while the transport is
\* still open after a framing error, the router task is running and no
\* port queue has been closed.
C5_FramingErrorSurvived ==
    (framingErr /\ ~tClosed) =>
        /\ rpc \notin {"closing", "done", "panic"}
        /\ \A p \in Ports : closeCount[p] = 0

\* The last n elements of s
C6_LastN(s, n) == SubSeq(s, Len(s) - n + 1, Len(s))

C6_Min(a, b) == IF a < b THEN a ELSE b

\* The router is between the discard and the send of an enqueue on port p.
C6_MidEnqueue(p) == rpc = "enq_send" /\ rport = p

\* C6: a queue never holds more than its capacity; it always holds the most
\* recently enqueued frames in arrival order; and with no reader, after n
\* enqueues it holds the min(n, capacity) most recent ones, the n - capacity
\* oldest having been evicted one per enqueue on the full queue.
C6_DropOldest ==
    \A p \in Ports :
        /\ Len(queue[p]) <= QueueDepth
        /\ queue[p] = C6_LastN(enq[p], Len(queue[p]))
        /\ (nread[p] = 0 /\ ~C6_MidEnqueue(p)) =>
              /\ Len(queue[p]) = C6_Min(QueueDepth, Len(enq[p]))
              /\ ndrop[p] = Len(enq[p]) - Len(queue[p])

\* capacity + 1 frames, not all alike, enqueued on a queue nobody read
C6_Witness ==
    \E p \in Ports :
        /\ nread[p] = 0
        /\ rpc = "scan"
        /\ Len(enq[p]) = QueueDepth + 1
        /\ enq[p][1] # enq[p][2]
        /\ ndrop[p] = 1
        /\ queue[p] = Tail(enq[p])

\* C7: once the transport has ended and the router task has stopped, every
\* port queue has been closed exactly once (so that readers get the queued
\* frames and then EOF).
C7_ClosedOnEof ==
    (tClosed /\ rpc \in {"done", "panic"}) => \A p \in Ports : closeCount[p] = 1

\* What does hold of the close: no queue is closed twice, a router that
\* returns has closed all eight, and a Read reports EOF only on a closed,
\* drained queue.
C7_ClosedOnceOnReturn ==
    /\ \A p \in Ports : closeCount[p] <= 1
    /\ rpc = "done" => \A p \in Ports : closeCount[p] = 1
    /\ lastRead.err = "EOF" => (closeCount[lastRead.port] = 1 /\ queue[lastRead.port] = <<>>)

----------------------------------------------------------------------------
(* SpecIrc: the command handlers of the local connections over the
   Directory (Server.Users, Server.Channels).  A handler is one step.  The
   Directory lock is free between handlers; a handler that locks it again
   while holding it never returns and leaves it held, after which a handler
   that needs the lock stops where it would acquire it.  Server.MOTD is nil,
   as NewServer leaves it. *)

Nicks == {"bob", "BOB", "al"}
ChanNames == {"#a"}
Callsign == "K1ABC"

\* strings.ToLower, over the nicks of the model
ToLower(str) == IF str = "BOB" THEN "bob" ELSE str

MapPut(m, k, v) == [x \in (DOMAIN m) \cup {k} |-> IF x = k THEN v ELSE m[x]]
MapDel(m, k) == [x \in (DOMAIN m) \ {k} |-> m[x]]

\* User.Local(): handleConnection sets local on the users it creates
IsLocal(u) == u \in Conns

NewChannel == [Users |-> EmptyMap, Topic |-> ""]

Registered(c) == uNick[c] # "" /\ uCall[c] # ""

\* handleCommand: with user.Nick == "" only NICK, USER and CAP go on
GatePass(nick, command) == nick # "" \/ command \in {"NICK", "USER", "CAP"}

\* Commands handleCommand's switch sends to its default branch.
GatedCmds == {"JOIN", "PRIVMSG", "NOTICE", "PART", "QUIT", "WALLOPS"}

CmdRecord(c, cmd, done, replies, tx, changed) ==
    [conn |-> c, cmd |-> cmd, done |-> done, regBefore |-> Registered(c),
     replies |-> replies, tx |-> tx, changed |-> changed, to |-> {}]

InitIrc ==
    /\ IrcIdle
    /\ BridgeIdle
    /\ ExtIdle
    /\ CodecIdle
    /\ TokIdle
    /\ MuxIdle

\* handleCommand's default branch: ERR_NOTREGISTERED
NotRegistered(c, cmd) ==
    /\ cstate[c] = "open"
    /\ cmd \in GatedCmds
    /\ ~GatePass(uNick[c], cmd)
    /\ lastCmd' = CmdRecord(c, cmd, TRUE, <<"451">>, 0, FALSE)
    /\ UNCHANGED <<cstate, uNick, uCall, Users, Channels, mu, welcomes, regBy>>
    /\ UNCHANGED <<codecVars, tokVars, muxVars, brVars, extVars>>

\* A command that is not in cmdSet: ERR_UNKNOWNCOMMAND
CmdUnknown(c) ==
    /\ cstate[c] = "open"
    /\ GatePass(uNick[c], "WALLOPS")
    /\ lastCmd' = CmdRecord(c, "WALLOPS", TRUE, <<"421">>, 0, FALSE)
    /\ UNCHANGED <<cstate, uNick, uCall, Users, Channels, mu, welcomes, regBy>>
    /\ UNCHANGED <<codecVars, tokVars, muxVars, brVars, extVars>>

\* capabilities
CmdCap(c) ==
    /\ cstate[c] = "open"
    /\ lastCmd' = CmdRecord(c, "CAP", TRUE, <<"CAP">>, 0, FALSE)
    /\ UNCHANGED <<cstate, uNick, uCall, Users, Channels, mu, welcomes, regBy>>
    /\ UNCHANGED <<codecVars, tokVars, muxVars, brVars, extVars>>

\* changeNick: the nick and the channel maps it leaves
ChangeNick(c, newNick) ==
    LET newNickLower == ToLower(newNick)
        oldNickLower == ToLower(uNick[c])
        inUse == newNickLower \in DOMAIN Users /\ IsLocal(Users[newNickLower])
    IN [ok |-> ~inUse,
        nick |-> IF inUse THEN uNick[c] ELSE newNick,
        chans |-> IF inUse THEN Channels
                  ELSE [n \in DOMAIN Channels |->
                          IF oldNickLower \in DOMAIN Channels[n].Users
                          THEN [Channels[n] EXCEPT
                                  !.Users = MapDel(MapPut(@, newNickLower, c), oldNickLower)]
                          ELSE Channels[n]]]

\* acceptUser: if user.Nick == "" { return }
AcceptGuard(nick) == nick # ""

\* nick: changeNick, then acceptUser if the user had no nick and has a callsign
CmdNick(c, n) ==
    /\ cstate[c] = "open"
    /\ mu = 0
    /\ LET r == ChangeNick(c, n)
           accept == uNick[c] = "" /\ uCall[c] # "" /\ AcceptGuard(r.nick)
       IN /\ uNick' = [uNick EXCEPT ![c] = r.nick]
          /\ Channels' = r.chans
          /\ Users' = IF accept THEN MapPut(Users, ToLower(r.nick), c) ELSE Users
          /\ welcomes' = IF accept THEN [welcomes EXCEPT ![c] = @ + 1] ELSE welcomes
          /\ regBy' = IF accept THEN [regBy EXCEPT ![c] = "NICK"] ELSE regBy
          /\ lastCmd' = CmdRecord(c, "NICK", TRUE,
                           (IF r.ok THEN <<"NICK">> ELSE <<"433">>)
                               \o (IF accept THEN <<"001", "002", "003">> ELSE <<>>),
                           0, <<Users', Channels'>> # <<Users, Channels>>)
    /\ UNCHANGED <<cstate, uCall, mu>>
    /\ UNCHANGED <<codecVars, tokVars, muxVars, brVars, extVars>>

\* user with a callsign already set, or without its four parameters
CmdUserRefused(c, valid) ==
    /\ cstate[c] = "open"
    /\ uCall[c] # "" \/ ~valid
    /\ lastCmd' = CmdRecord(c, "USER", TRUE,
                     IF uCall[c] # "" THEN <<"462">> ELSE <<"461">>, 0, FALSE)
    /\ UNCHANGED <<cstate, uNick, uCall, Users, Channels, mu, welcomes, regBy>>
    /\ UNCHANGED <<codecVars, tokVars, muxVars, brVars, extVars>>

\* user: sets the callsign, then acceptUser if the nick is set; acceptUser
\* sends its replies before it takes the lock
CmdUser(c) ==
    /\ cstate[c] = "open"
    /\ uCall[c] = ""
    /\ uCall' = [uCall EXCEPT ![c] = Callsign]
    /\ LET accept == uNick[c] # "" /\ AcceptGuard(uNick[c])
           locked == accept /\ mu # 0
       IN /\ welcomes' = IF accept THEN [welcomes EXCEPT ![c] = @ + 1] ELSE welcomes
          /\ cstate' = IF locked THEN [cstate EXCEPT ![c] = "blocked"] ELSE cstate
          /\ Users' = IF accept /\ ~locked THEN MapPut(Users, ToLower(uNick[c]), c) ELSE Users
          /\ regBy' = IF accept /\ ~locked THEN [regBy EXCEPT ![c] = "USER"] ELSE regBy
          /\ lastCmd' = CmdRecord(c, "USER", ~locked,
                           IF accept THEN <<"001", "002", "003">> ELSE <<>>,
                           0, Users' # Users)
    /\ UNCHANGED <<uNick, Channels, mu>>
    /\ UNCHANGED <<codecVars, tokVars, muxVars, brVars, extVars>>

\* The User objects handleTNC makes with NewUser for the nicks of its frames
RemoteIds == {11, 12}
RemoteUser(nick) == IF nick = "bob" THEN 11 ELSE 12
\* Users that no connection owns are numbered by their nick: 10 + i the users
\* handleTNC creates, 20 + i the users json decodes into s.Users, 30 + i the
\* users UnmarshalJSON creates with NewUser, i the index of the nick
NickSeq == <<"bob", "BOB", "al">>
NickId(nick) == CHOOSE i \in DOMAIN NickSeq : NickSeq[i] = nick
RemoteNick(u) == NickSeq[u % 10]

\* user.Nick, of a connection's user or of a bridged one
NickOf(u) == IF u \in Conns THEN uNick[u] ELSE RemoteNick(u)

\* Variant of JoinInto that keys the member by its nick as typed
JoinIntoRaw(chans, u, channelName) ==
    LET channel == IF channelName \in DOMAIN chans THEN chans[channelName]
                   ELSE NewChannel
    IN MapPut(chans, channelName,
              [channel EXCEPT !.Users = MapPut(@, NickOf(u), u)])

\* joinChannel on the channel map chans: the map after user u joined
JoinInto(chans, u, channelName) ==
    LET channel == IF channelName \in DOMAIN chans THEN chans[channelName]
                   ELSE NewChannel
    IN MapPut(chans, channelName,
              [channel EXCEPT !.Users = MapPut(@, ToLower(NickOf(u)), u)])

\* joinChannel: the channel map after user c joined channelName
JoinChannel(c, channelName) == JoinInto(Channels, c, channelName)

\* join with one channel name
CmdJoin(c, ch) ==
    /\ cstate[c] = "open"
    /\ GatePass(uNick[c], "JOIN")
    /\ mu = 0
    /\ Channels' = JoinChannel(c, ch)
    /\ lastCmd' = CmdRecord(c, "JOIN", TRUE,
                     <<"JOIN", IF Channels'[ch].Topic = "" THEN "331" ELSE "332", "353", "366">>,
                     0, Channels' # Channels)
    /\ UNCHANGED <<cstate, uNick, uCall, Users, mu, welcomes, regBy>>
    /\ UNCHANGED <<codecVars, tokVars, muxVars, brVars, extVars>>

\* strings.HasPrefix(name, "#")
IsChanName(name) == name \in ChanNames

MapRange(m) == { m[k] : k \in DOMAIN m }

\* send: the users the line is written to
Recipients(users, chans, sender, cmd, target) ==
    IF IsChanName(target)
    THEN IF target \notin DOMAIN chans THEN {}
         ELSE { u \in MapRange(chans[target].Users) :
                  ~(NickOf(u) = NickOf(sender) /\ cmd # "PART") }
    ELSE IF target \in DOMAIN users THEN {users[target]} ELSE {}

\* send: transmissions on the radio port
RadioTx(sender) == IF IsLocal(sender) THEN 1 ELSE 0

\* privmsg / notice: send transmits the line on the radio for a local sender
CmdSend(c, cmd, target) ==
    /\ cstate[c] = "open"
    /\ cmd \in {"PRIVMSG", "NOTICE"}
    /\ GatePass(uNick[c], cmd)
    /\ mu = 0
    /\ lastCmd' = [CmdRecord(c, cmd, TRUE, <<>>, RadioTx(c), FALSE)
                      EXCEPT !.to = Recipients(Users, Channels, c, cmd, target)]
    /\ UNCHANGED <<cstate, uNick, uCall, Users, Channels, mu, welcomes, regBy>>
    /\ UNCHANGED <<codecVars, tokVars, muxVars, brVars, extVars>>

\* part with one channel name: holds the lock; for a channel the user is
\* in it calls send, which locks again
CmdPart(c, ch) ==
    /\ cstate[c] = "open"
    /\ GatePass(uNick[c], "PART")
    /\ mu = 0
    /\ IF ch \notin DOMAIN Channels
       THEN /\ lastCmd' = CmdRecord(c, "PART", TRUE, <<"403">>, 0, FALSE)
            /\ UNCHANGED <<cstate, mu>>
       ELSE IF ToLower(uNick[c]) \notin DOMAIN Channels[ch].Users
       THEN /\ lastCmd' = CmdRecord(c, "PART", TRUE, <<"442">>, 0, FALSE)
            /\ UNCHANGED <<cstate, mu>>
       ELSE /\ lastCmd' = CmdRecord(c, "PART", FALSE, <<>>, 0, FALSE)
            /\ mu' = c
            /\ cstate' = [cstate EXCEPT ![c] = "blocked"]
    /\ UNCHANGED <<uNick, uCall, Users, Channels, welcomes, regBy>>
    /\ UNCHANGED <<codecVars, tokVars, muxVars, brVars, extVars>>

\* removeUser: the Directory key is lowered, the channel keys are not
RemoveUser(c) ==
    [users |-> MapDel(Users, ToLower(uNick[c])),
     chans |-> [n \in DOMAIN Channels |->
                  [Channels[n] EXCEPT !.Users = MapDel(@, uNick[c])]]]

\* quit: Server.quit holds the lock and calls send for every channel the
\* user is in; then handleConnection removes the user and returns
CmdQuit(c) ==
    /\ cstate[c] = "open"
    /\ GatePass(uNick[c], "QUIT")
    /\ mu = 0
    /\ IF \E n \in DOMAIN Channels : ToLower(uNick[c]) \in DOMAIN Channels[n].Users
       THEN /\ lastCmd' = CmdRecord(c, "QUIT", FALSE, <<>>, 0, FALSE)
            /\ mu' = c
            /\ cstate' = [cstate EXCEPT ![c] = "blocked"]
            /\ UNCHANGED <<Users, Channels>>
       ELSE /\ Users' = RemoveUser(c).users
            /\ Channels' = RemoveUser(c).chans
            /\ cstate' = [cstate EXCEPT ![c] = "closed"]
            /\ lastCmd' = CmdRecord(c, "QUIT", TRUE, <<>>, 0,
                             <<Users', Channels'>> # <<Users, Channels>>)
            /\ mu' = mu
    /\ UNCHANGED <<uNick, uCall, welcomes, regBy>>
    /\ UNCHANGED <<codecVars, tokVars, muxVars, brVars, extVars>>

\* handleConnection: scanner.Scan() returns false, the loop ends
Disconnect(c) ==
    /\ cstate[c] = "open"
    /\ cstate' = [cstate EXCEPT ![c] = "closed"]
    /\ lastCmd' = CmdRecord(c, "EOF", TRUE, <<>>, 0, FALSE)
    /\ UNCHANGED <<uNick, uCall, Users, Channels, mu, welcomes, regBy>>
    /\ UNCHANGED <<codecVars, tokVars, muxVars, brVars, extVars>>

NextIrc ==
    \E c \in Conns :
        \/ \E cmd \in GatedCmds : NotRegistered(c, cmd)
        \/ CmdUnknown(c)
        \/ CmdCap(c)
        \/ \E n \in Nicks : CmdNick(c, n)
        \/ \E valid \in BOOLEAN : CmdUserRefused(c, valid)
        \/ CmdUser(c)
        \/ \E ch \in ChanNames : CmdJoin(c, ch)
        \/ \E cmd \in {"PRIVMSG", "NOTICE"}, target \in ChanNames \cup Nicks : CmdSend(c, cmd, target)
        \/ \E ch \in ChanNames : CmdPart(c, ch)
        \/ CmdQuit(c)
        \/ Disconnect(c)

SpecIrc == InitIrc /\ [][NextIrc]_vars

\* The users the Directory holds
DirUsers == { Users[k] : k \in DOMAIN Users }

\* C9: a connection that has both its nick and its callsign is in the
\* Directory under its lowercase nick and has been sent the welcome exactly
\* once; a connection that lacks one of them is not in the Directory and has
\* been sent no welcome.
C9_RegisteredInDirectory ==
    \A c \in Conns :
        /\ (Registered(c) /\ cstate[c] = "open") =>
              /\ ToLower(uNick[c]) \in DOMAIN Users
              /\ Users[ToLower(uNick[c])] = c
              /\ welcomes[c] = 1
        /\ ~Registered(c) => (welcomes[c] = 0 /\ c \notin DirUsers)

\* What does hold of registration: no welcome and no Directory entry before
\* both fields are set, never a second welcome, and the handler that
\* completes the pair returns with the user in the Directory under the
\* lowercase of the nick it has at that moment.
C9_AtCompletion ==
    \A c \in Conns :
        /\ ~Registered(c) => (welcomes[c] = 0 /\ c \notin DirUsers)
        /\ welcomes[c] <= 1
        /\ (Registered(c) /\ cstate[c] # "blocked") => welcomes[c] = 1
        /\ (lastCmd.conn = c /\ lastCmd.done /\ ~lastCmd.regBefore /\ Registered(c)) =>
              /\ lastCmd.cmd \in {"NICK", "USER"}
              /\ ToLower(uNick[c]) \in DOMAIN Users
              /\ Users[ToLower(uNick[c])] = c
              /\ lastCmd.replies[Len(lastCmd.replies) - 2] = "001"

\* Two connections registered, one by NICK then USER, one by USER then NICK,
\* the latter under a nick with capitals.
C9_BothOrders ==
    \E c, d \in Conns :
        /\ regBy[c] = "USER" /\ regBy[d] = "NICK"
        /\ uNick[d] = "BOB" /\ "bob" \in DOMAIN Users /\ Users["bob"] = d
        /\ lastCmd.conn = d /\ lastCmd.cmd = "NICK" /\ ~lastCmd.regBefore

\* C10: a command other than NICK, USER and CAP from a connection that has
\* not completed registration is answered with 451, changes neither the
\* Directory nor a channel, and transmits nothing on the radio link.
C10_UnregisteredGate ==
    (lastCmd.conn # 0 /\ ~lastCmd.regBefore /\ lastCmd.cmd \in GatedCmds) =>
        /\ lastCmd.replies = <<"451">>
        /\ ~lastCmd.changed
        /\ lastCmd.tx = 0

----------------------------------------------------------------------------
(* SpecBridge: the radio bridge task (Server.handleTNC) together with the
   commands of the connections that change the Directory.  The bridge
   handles one frame per step.  A panic of the bridge task ends the process:
   nothing runs after it. *)

\* The frames the bridge reads: the identity split at '!' and '@' as
\* User.Parse does, and the fields that follow the identity.
GoodId(nick) == <<nick, "K2XYZ", "Bob">>
Frame(id, rest) == [id |-> id, rest |-> rest]
Frames ==
    { Frame(<<>>, <<>>),
      Frame(GoodId("bob"), <<"PRIVMSG">>),
      Frame(GoodId("bob"), <<"PRIVMSG", "#a">>),
      Frame(GoodId("bob"), <<"PRIVMSG", "#a", "hi">>),
      Frame(GoodId("BOB"), <<"PRIVMSG", "#a", "hi">>),
      Frame(GoodId("bob"), <<"NOTICE", "bob", "hi">>),
      Frame(GoodId("bob"), <<"TOPIC", "#a">>),
      Frame(GoodId("bob"), <<"TOPIC", "#a", "t">>),
      Frame(GoodId("bob"), <<"JOIN", "#a", "hi">>),
      Frame(<<"bob">>, <<"PRIVMSG", "#a", "hi">>) }

\* len(args) after parse
NArgs(f) == 1 + Len(f.rest)

\* User.Parse: populates the user only from exactly three fields
ParseNick(id) == IF Len(id) = 3 THEN id[1] ELSE ""

\* slices.Contains([]string{"PRIVMSG", "NOTICE", "TOPIC"}, args[1])
Bridged(cmd) == cmd \in {"PRIVMSG", "NOTICE", "TOPIC"}

\* Server.Channel: the channel map with the channel created if absent
WithChannel(chans, name) ==
    IF name \in DOMAIN chans THEN chans ELSE MapPut(chans, name, NewChannel)

\* The orders in which a range over a map can visit its keys
Orders(m) ==
    { o \in [1 .. Cardinality(DOMAIN m) -> DOMAIN m] :
        \A i, j \in DOMAIN o : i # j => o[i] # o[j] }

\* handleTNC's AutoJoin loop over s.Users, visiting the keys in order
RECURSIVE AutoJoinAll(_, _, _, _)
AutoJoinAll(users, chans, order, name) ==
    IF order = <<>> THEN [chans |-> chans, joined |-> {}]
    ELSE LET u == users[Head(order)]
             ok == NickOf(u) \in DOMAIN chans[name].Users
             join == IsLocal(u) /\ ~ok
             r == AutoJoinAll(users, IF join THEN JoinInto(chans, u, name) ELSE chans,
                              Tail(order), name)
         IN [chans |-> r.chans, joined |-> r.joined \cup (IF join THEN {u} ELSE {})]

BridgeResult(users, chans, outcome, delivered, joined, tx) ==
    [users |-> users, chans |-> chans, outcome |-> outcome, delivered |-> delivered,
     joined |-> joined, tx |-> tx]


\* The user handleTNC goes on with: the Directory's user of that nick if
\* there is one, else a new remote user, which it adds to the Directory
Incoming(f) ==
    LET key == ToLower(ParseNick(f.id))
    IN IF key \in DOMAIN Users THEN Users[key] ELSE RemoteUser(ParseNick(f.id))

WithIncoming(f) ==
    LET key == ToLower(ParseNick(f.id))
    IN IF key \in DOMAIN Users THEN Users ELSE MapPut(Users, key, Incoming(f))

\* handleTNC, the channel part: the channel is created, the incoming user
\* joined if ch.Nick does not find it, the local users joined under AutoJoin
ChannelStage(f, order) ==
    LET target == f.rest[2]
        u == Incoming(f)
        chans1 == WithChannel(Channels, target)
        absent == ToLower(NickOf(u)) \notin DOMAIN chans1[target].Users
        chans2 == IF absent THEN JoinInto(chans1, u, target) ELSE chans1
        aj == IF autoJoin THEN AutoJoinAll(WithIncoming(f), chans2, order, target)
              ELSE [chans |-> chans2, joined |-> {}]
    IN IF IsChanName(target)
       THEN [chans |-> aj.chans, joined |-> aj.joined \cup (IF absent THEN {u} ELSE {})]
       ELSE [chans |-> Channels, joined |-> {}]

\* setTopic, as handleTNC calls it: on s.Channel(args[2]) with args[3:] joined
TopicStage(f, chans) ==
    LET target == f.rest[2]
        chans1 == WithChannel(chans, target)
        text == IF NArgs(f) > 3 THEN f.rest[3] ELSE ""
    IN [chans |-> [chans1 EXCEPT ![target].Topic = text],
        delivered |-> MapRange(chans1[target].Users)]

\* One iteration of handleTNC's loop on frame f
HandleFrame(f, order) ==
    IF NArgs(f) < 2
    THEN BridgeResult(Users, Channels, "panic", {}, {}, 0)
    ELSE IF ~Bridged(f.rest[1]) \/ ParseNick(f.id) = ""
    THEN BridgeResult(Users, Channels, "dropped", {}, {}, 0)
    ELSE IF mu # 0
    THEN BridgeResult(Users, Channels, "blocked", {}, {}, 0)
    ELSE IF NArgs(f) < 3
    THEN BridgeResult(WithIncoming(f), Channels, "panic", {}, {}, 0)
    ELSE LET cs == ChannelStage(f, order)
             ts == TopicStage(f, cs.chans)
         IN IF f.rest[1] = "TOPIC"
            THEN BridgeResult(WithIncoming(f), ts.chans, "handled", ts.delivered,
                              cs.joined, RadioTx(Incoming(f)))
            ELSE IF NArgs(f) < 4
            THEN BridgeResult(WithIncoming(f), cs.chans, "panic", {}, cs.joined, 0)
            ELSE BridgeResult(WithIncoming(f), cs.chans, "handled",
                              Recipients(WithIncoming(f), cs.chans, Incoming(f),
                                         f.rest[1], f.rest[2]),
                              cs.joined, RadioTx(Incoming(f)))

\* The orders the AutoJoin loop can take on frame f, if it gets there
RangeOrders(f) ==
    IF NArgs(f) >= 3 /\ Bridged(f.rest[1]) /\ ParseNick(f.id) # "" /\ mu = 0 /\ autoJoin
    THEN IF IsChanName(f.rest[2]) THEN Orders(WithIncoming(f)) ELSE {<<>>}
    ELSE {<<>>}

\* The nick connection c asks for
LocalNick(c) == IF c = 1 THEN "BOB" ELSE "al"

InitBridge ==
    /\ IrcIdle
    /\ autoJoin \in BOOLEAN
    /\ bridge = "run"
    /\ lastFrame = NoFrame
    /\ CodecIdle
    /\ TokIdle
    /\ MuxIdle
    /\ ExtIdle

\* The bridge task reads frame f from its port and handles it
TncFrame(f) ==
    /\ bridge = "run"
    /\ \E order \in RangeOrders(f) :
         LET r == HandleFrame(f, order)
         IN /\ Users' = r.users
            /\ Channels' = r.chans
            /\ bridge' = IF r.outcome \in {"panic", "blocked"} THEN r.outcome ELSE "run"
            /\ lastFrame' = [frame |-> f, outcome |-> r.outcome, delivered |-> r.delivered,
                            joined |-> r.joined, tx |-> r.tx]
    /\ UNCHANGED <<cstate, uNick, uCall, mu, welcomes, regBy, lastCmd, autoJoin>>
    /\ UNCHANGED <<codecVars, tokVars, muxVars, extVars>>

\* The commands of the connections that change the Directory or its lock
NextDirectory ==
    \E c \in Conns :
        \/ CmdNick(c, LocalNick(c))
        \/ CmdUser(c)
        \/ \E ch \in ChanNames : CmdJoin(c, ch)
        \/ CmdQuit(c)

\* An unrecovered panic of the bridge task ends the process
NextBridge ==
    /\ bridge # "panic"
    /\ \/ NextDirectory
       \/ \E f \in Frames : TncFrame(f)

SpecBridge == InitBridge /\ [][NextBridge]_vars

----------------------------------------------------------------------------
(* Directory claims *)

\* The lowercase of nick is a Directory key of a local user other than c
HeldByOtherLocal(c, nick) ==
    /\ ToLower(nick) \in DOMAIN Users
    /\ IsLocal(Users[ToLower(nick)])
    /\ Users[ToLower(nick)] # c

\* C11: a NICK is answered with 433, the nick left as it was, if and only if
\* the lowercase of the new nick is held in the Directory by a different
\* local user; a remote holder does not block it, nor does the user's own
\* entry under another letter case.
C11_RejectIff ==
    [][\A c \in Conns, n \in Nicks :
          CmdNick(c, n) =>
              /\ (lastCmd'.replies[1] = "433") <=> HeldByOtherLocal(c, n)
              /\ (lastCmd'.replies[1] = "433") => uNick'[c] = uNick[c]]_vars

\* What does hold of changeNick: it rejects exactly when the lowercase of
\* the new nick is a Directory key of a local user, the user itself included.
C11_RejectIffLocalKey ==
    [][\A c \in Conns, n \in Nicks :
          CmdNick(c, n) =>
              /\ (lastCmd'.replies[1] = "433") <=>
                    (ToLower(n) \in DOMAIN Users /\ IsLocal(Users[ToLower(n)]))
              /\ (lastCmd'.replies[1] = "433") => uNick'[c] = uNick[c]]_vars

\* The channels whose member map holds user u
ChannelsOf(chans, u) == { n \in DOMAIN chans : u \in MapRange(chans[n].Users) }

\* m maps key k to user u
MapsTo(m, k, u) == k \in DOMAIN m /\ m[k] = u

\* The channel maps hold u under lowercase(new) and not under lowercase(old)
ChannelsRekeyed(c, old, new) ==
    /\ ChannelsOf(Channels', c) = ChannelsOf(Channels, c)
    /\ \A ch \in ChannelsOf(Channels, c) :
          /\ MapsTo(Channels'[ch].Users, ToLower(new), c)
          /\ ToLower(old) # ToLower(new) => ~MapsTo(Channels'[ch].Users, ToLower(old), c)

\* C12: after a successful nick change of a registered user the Directory
\* maps lowercase(new) to the user and no longer lowercase(old); every
\* channel the user is in holds it under lowercase(new) only; the user is in
\* the same channels as before.
C12_Rekeyed ==
    [][\A c \in Conns, n \in Nicks :
          (CmdNick(c, n) /\ Registered(c) /\ lastCmd'.replies[1] = "NICK") =>
              /\ MapsTo(Users', ToLower(n), c)
              /\ ToLower(uNick[c]) # ToLower(n) => ~MapsTo(Users', ToLower(uNick[c]), c)
              /\ ChannelsRekeyed(c, uNick[c], n)]_vars

\* C13: every Directory entry is keyed by the lowercase of its user's
\* current nick; every channel membership entry is keyed by the lowercase of
\* its member's current nick and is the user the Directory holds under that
\* key.
C13_SingleNormalization ==
    /\ \A k \in DOMAIN Users : k = ToLower(NickOf(Users[k]))
    /\ \A ch \in DOMAIN Channels : \A k \in DOMAIN Channels[ch].Users :
          /\ k = ToLower(NickOf(Channels[ch].Users[k]))
          /\ MapsTo(Users, k, Channels[ch].Users[k])

\* C14: every key of every channel's member map is a key of the Directory.
C14_ReferentialIntegrity ==
    \A ch \in DOMAIN Channels : DOMAIN Channels[ch].Users \subseteq DOMAIN Users

\* Neither the Directory nor a channel's member map holds user u
Gone(users, chans, u) == u \notin MapRange(users) /\ ChannelsOf(chans, u) = {}

\* C15: QUIT from a registered user that is a member of at least one channel
\* completes: the handler returns, the connection ends, and neither the
\* Directory nor any channel's member map holds the user afterwards.
C15_QuitCompletes ==
    [][\A c \in Conns :
          (CmdQuit(c) /\ Registered(c) /\ ChannelsOf(Channels, c) # {}) =>
              /\ lastCmd'.done
              /\ cstate'[c] = "closed"
              /\ mu' = 0
              /\ Gone(Users', Channels', c)]_vars

\* C16: when the input of a registered connection ends without a QUIT, the
\* user is removed from the Directory and from every channel's member map
\* and its nick is free for another connection.
C16_DisconnectReclaims ==
    [][\A c \in Conns :
          (Disconnect(c) /\ Registered(c)) =>
              /\ Gone(Users', Channels', c)
              /\ ~(ToLower(uNick[c]) \in DOMAIN Users'
                     /\ IsLocal(Users'[ToLower(uNick[c])]))]_vars

\* The users in the member map of channel name
Members(name) ==
    IF name \in DOMAIN Channels THEN MapRange(Channels[name].Users) ELSE {}

\* C17: a message to a channel is written to every member of the channel
\* other than the sender, a PART to the sender too; the line goes out on the
\* radio once for a local sender and not at all for a remote one.
C17_ChannelRoute ==
    [][/\ \A c \in Conns, cmd \in {"PRIVMSG", "NOTICE"}, t \in ChanNames :
             CmdSend(c, cmd, t) =>
                 /\ lastCmd'.to = Members(t) \ {c}
                 /\ lastCmd'.tx = 1
       /\ \A u \in Conns \cup RemoteIds, t \in ChanNames :
             /\ Recipients(Users, Channels, u, "PART", t) = Members(t)
             /\ RadioTx(u) = (IF u \in Conns THEN 1 ELSE 0)]_vars

\* What send does: it leaves out the members whose nick is the sender's.
C17_SkipsByNick ==
    [][\A c \in Conns, cmd \in {"PRIVMSG", "NOTICE"}, t \in ChanNames :
          CmdSend(c, cmd, t) =>
              /\ lastCmd'.to = { u \in Members(t) : NickOf(u) # uNick[c] }
              /\ lastCmd'.tx = 1]_vars

\* The Directory users whose nick is nick in some letter case
UsersNamed(nick) == { u \in MapRange(Users) : ToLower(NickOf(u)) = ToLower(nick) }

\* C18: a message to a nick is written to exactly the Directory user whose
\* nick equals the target in any letter case, and to nobody only when the
\* Directory holds no such user.
C18_NickRoute ==
    [][\A c \in Conns, cmd \in {"PRIVMSG", "NOTICE"}, t \in Nicks :
          CmdSend(c, cmd, t) => lastCmd'.to = UsersNamed(t)]_vars

\* What send does: it looks the target up as a Directory key, as written.
C18_RawKey ==
    [][\A c \in Conns, cmd \in {"PRIVMSG", "NOTICE"}, t \in Nicks :
          CmdSend(c, cmd, t) =>
              lastCmd'.to = (IF t \in DOMAIN Users THEN {Users[t]} ELSE {})]_vars

----------------------------------------------------------------------------
(* Bridge claims *)

\* The frame's command is not PRIVMSG, NOTICE or TOPIC, or its identity does
\* not parse
Unwanted(f) == NArgs(f) >= 2 /\ (~Bridged(f.rest[1]) \/ ParseNick(f.id) = "")

\* The frame is to be discarded: unwanted, or fewer than the four fields
\* :identity COMMAND target :text
Malformed(f) == NArgs(f) < 4 \/ Unwanted(f)

\* The bridge dropped the frame: nothing changed, nothing written, running
DroppedHarmless ==
    /\ Users' = Users
    /\ Channels' = Channels
    /\ lastFrame'.outcome = "dropped"
    /\ lastFrame'.delivered = {}
    /\ lastFrame'.joined = {}
    /\ lastFrame'.tx = 0
    /\ bridge' = "run"

\* C19: a frame with another command, with an identity that does not parse
\* into three fields, or with fewer than four fields is discarded: the
\* Directory and the channels are unchanged, nothing is delivered, and the
\* bridge task goes on to the next frame.
C19_FilteredWithoutHarm ==
    [][\A f \in Frames : (TncFrame(f) /\ Malformed(f)) => DroppedHarmless]_vars

\* What the filter does achieve: a frame of at least two fields with an
\* unwanted command or an unparsable identity is dropped without harm.
C19_UnwantedDropped ==
    [][\A f \in Frames : (TncFrame(f) /\ Unwanted(f)) => DroppedHarmless]_vars

\* An unwanted frame was dropped after the Directory had users and channels.
C19_UnwantedSeen ==
    /\ lastFrame.outcome = "dropped"
    /\ Unwanted(lastFrame.frame)
    /\ Users # EmptyMap /\ Channels # EmptyMap

\* The frame passes the filters and is addressed to a channel
ToChannel(f) == ~Malformed(f) /\ IsChanName(f.rest[2])

LocalsOf(S) == { u \in S : IsLocal(u) }

\* C20: under AutoJoin a frame to a channel that passes the filters makes
\* every local user of the Directory a member of the channel, each newly
\* added one through joinChannel, which sends it the JOIN; without AutoJoin
\* the channel exists afterwards with the frame's sender in it and no local
\* user has been added.
C20_AutoJoin ==
    [][\A f \in Frames :
          (TncFrame(f) /\ ToChannel(f)) =>
              LET ch == f.rest[2]
                  after == IF ch \in DOMAIN Channels'
                           THEN MapRange(Channels'[ch].Users) ELSE {}
              IN /\ lastFrame'.outcome = "handled"
                 /\ Users'[ToLower(ParseNick(f.id))] \in after
                 /\ autoJoin =>
                       /\ LocalsOf(MapRange(Users')) \subseteq after
                       /\ LocalsOf(after) \ Members(ch) \subseteq lastFrame'.joined
                 /\ ~autoJoin => LocalsOf(after) = LocalsOf(Members(ch))]_vars

\* The channel of frame f holds no other user under the key of f's sender
KeyFree(f) ==
    \A u \in Members(f.rest[2]) :
        ToLower(NickOf(u)) = ToLower(ParseNick(f.id)) => u = Incoming(f)

\* C20 for the frames whose nick no local user holds, in the Directory or in
\* the channel, with the Directory lock free.
C20_RemoteSender ==
    [][\A f \in Frames :
          (TncFrame(f) /\ ToChannel(f) /\ mu = 0 /\ ~IsLocal(Incoming(f)) /\ KeyFree(f)) =>
              LET ch == f.rest[2]
                  after == IF ch \in DOMAIN Channels'
                           THEN MapRange(Channels'[ch].Users) ELSE {}
              IN /\ lastFrame'.outcome = "handled"
                 /\ Users'[ToLower(ParseNick(f.id))] \in after
                 /\ autoJoin =>
                       /\ LocalsOf(MapRange(Users')) \subseteq after
                       /\ LocalsOf(after) \ Members(ch) \subseteq lastFrame'.joined
                 /\ ~autoJoin => LocalsOf(after) = LocalsOf(Members(ch))]_vars

----------------------------------------------------------------------------
(* SpecLock: the tasks of the server at the grain of Server.Lock and
   Server.Unlock.  A task's position names the statement it is executing:
     accept  acceptUser: s.Users[...] = user between Lock and Unlock
     remove  removeUser: the deletions between Lock and the deferred Unlock
     join    joinChannel: insertion and JOIN broadcast between Lock and Unlock
     names   joinChannel: the loop over channel.Users for the 353 reply
     nick    handleTNC: inside s.Nick, between its Lock and Unlock
     miss    handleTNC: s.Nick has returned nil
     insert  handleTNC: s.Users[...] = incomingUser
     range   handleTNC: with AutoJoin, the loop over s.Users reading ch.Users
     ping    PingPong: the loop over s.Users between Lock and Unlock
     save    Save: encoding the server between Lock and the deferred Unlock *)

\* The positions a task enters with s.Lock() and leaves with s.Unlock()
Locked == {"accept", "remove", "join", "nick", "ping", "save"}

\* The routines task t can start: each starts by taking the lock
Entry(t) ==
    IF t \in Conns THEN {"accept", "remove", "join"}
    ELSE IF t = Task.bridge THEN {"nick"}
    ELSE IF t = Task.ping THEN {"ping"}
    ELSE {"save"}

\* The position that follows pc in its routine
Flow(pc) ==
    CASE pc = "join"   -> "names"
      [] pc = "nick"   -> "miss"
      [] pc = "miss"   -> "insert"
      [] pc = "insert" -> IF autoJoin THEN "range" ELSE "idle"
      [] OTHER         -> "idle"

\* The maps of the Directory position pc writes (w) and reads or ranges over (r)
Touches(pc) ==
    CASE pc = "accept" -> [w |-> {"users"}, r |-> {}]
      [] pc = "remove" -> [w |-> {"users", "members"}, r |-> {"channels"}]
      [] pc = "join"   -> [w |-> {"channels", "members"}, r |-> {"members"}]
      [] pc = "names"  -> [w |-> {}, r |-> {"members"}]
      [] pc = "nick"   -> [w |-> {}, r |-> {"users"}]
      [] pc = "insert" -> [w |-> {"users"}, r |-> {}]
      [] pc = "range"  -> [w |-> {}, r |-> {"users", "members"}]
      [] pc = "ping"   -> [w |-> {}, r |-> {"users"}]
      [] pc = "save"   -> [w |-> {}, r |-> {"users", "channels", "members"}]
      [] OTHER         -> [w |-> {}, r |-> {}]

\* Task t writes a map that task u writes or reads at the same time
Conflict(t, u) ==
    /\ t # u
    /\ Touches(taskPc[t]).w \cap (Touches(taskPc[u]).w \cup Touches(taskPc[u]).r) # {}

InitLock ==
    /\ IrcIdle
    /\ autoJoin \in BOOLEAN
    /\ bridge = "run"
    /\ lastFrame = NoFrame
    /\ CodecIdle
    /\ TokIdle
    /\ MuxIdle
    /\ ExtIdle

\* s.Lock() of task t at the start of routine pc
Enter(t, pc) ==
    /\ ~fatal
    /\ taskPc[t] = "idle"
    /\ lockOwner = 0
    /\ lockOwner' = t
    /\ taskPc' = [taskPc EXCEPT ![t] = pc]
    /\ UNCHANGED <<fatal, snapVars, linkVars, outVars, readVars>>
    /\ UNCHANGED <<codecVars, tokVars, muxVars, ircVars, brVars>>

\* Task t finishes the statements of its position; a locked position ends
\* with s.Unlock()
Advance(t) ==
    /\ ~fatal
    /\ taskPc[t] # "idle"
    /\ taskPc' = [taskPc EXCEPT ![t] = Flow(taskPc[t])]
    /\ lockOwner' = IF taskPc[t] \in Locked THEN 0 ELSE lockOwner
    /\ UNCHANGED <<fatal, snapVars, linkVars, outVars, readVars>>
    /\ UNCHANGED <<codecVars, tokVars, muxVars, ircVars, brVars>>

\* Two tasks inside the same map at once: the runtime may detect it and stop
\* the process (concurrent map writes / iteration and write), or may not
RuntimeThrow ==
    /\ ~fatal
    /\ \E t, u \in Tasks : Conflict(t, u)
    /\ fatal' = TRUE
    /\ UNCHANGED <<lockOwner, taskPc, snapVars, linkVars, outVars, readVars>>
    /\ UNCHANGED <<codecVars, tokVars, muxVars, ircVars, brVars>>

NextLock ==
    \/ \E t \in Tasks : \E pc \in Entry(t) : Enter(t, pc)
    \/ \E t \in Tasks : Advance(t)
    \/ RuntimeThrow

SpecLock == InitLock /\ [][NextLock]_vars

\* C21: every task that writes the user map, the channel map or a member map
\* holds the Directory lock while it writes, and no task writes a map that
\* another task writes or ranges over at the same time.
C21_SingleCriticalSection ==
    /\ \A t \in Tasks : Touches(taskPc[t]).w # {} => lockOwner = t
    /\ \A t, u \in Tasks : ~Conflict(t, u)

\* The tasks that take the lock exclude one another
C21_LockExcludes ==
    \A t, u \in Tasks :
        (t # u /\ taskPc[t] \in Locked) => taskPc[u] \notin Locked

----------------------------------------------------------------------------
(* SpecSnap: Server.Save and Server.Load next to the connections.  The
   state file holds what json writes: for s.Users the Nick of every entry
   under its key, for every channel the keys of its member map
   (ChanUserMap.MarshalJSON) and its topic. *)

\* enc.Encode(s) in Save
Encode(users, chans) ==
    [Users |-> [k \in DOMAIN users |-> NickOf(users[k])],
     Channels |-> [n \in DOMAIN chans |->
                     [Users |-> DOMAIN chans[n].Users, Topic |-> chans[n].Topic]],
     written |-> TRUE]

\* The guard of Load: the Directory holds users
LoadRefusesNever(users) == FALSE
LoadRefuses(users) == users # EmptyMap

\* Load on a server whose maps are users and chans, reading state file f.
\* dec.Decode(s) stores the decoded users and channels into the maps; the
\* members of a decoded channel are the users UnmarshalJSON makes.  The loop
\* that resolves the members then calls s.Nick for the first member it
\* meets, and s.Nick waits for the lock Load itself holds.
Load(users, chans, f) ==
    IF LoadRefuses(users) THEN [outcome |-> "refused", users |-> users, chans |-> chans]
    ELSE IF ~f.written THEN [outcome |-> "ok", users |-> users, chans |-> chans]
    ELSE LET decUsers == [k \in DOMAIN users \cup DOMAIN f.Users |->
                            IF k \in DOMAIN f.Users THEN 20 + NickId(f.Users[k])
                            ELSE users[k]]
             decChans == [n \in DOMAIN chans \cup DOMAIN f.Channels |->
                            IF n \in DOMAIN f.Channels
                            THEN [Users |-> [k \in {ToLower(x) : x \in f.Channels[n].Users}
                                               |-> 30 + NickId(k)],
                                  Topic |-> f.Channels[n].Topic]
                            ELSE chans[n]]
         IN [outcome |-> IF \E n \in DOMAIN decChans : decChans[n].Users # EmptyMap
                         THEN "blocked" ELSE "ok",
             users |-> decUsers, chans |-> decChans]

\* PersistState or main calls Save
SnapSave ==
    /\ mu = 0
    /\ file' = Encode(Users, Channels)
    /\ UNCHANGED <<lastLoad, lockVars, linkVars, outVars, readVars>>
    /\ UNCHANGED <<codecVars, tokVars, muxVars, ircVars, brVars>>

\* The process is started again: main calls Load on the server NewServer()
\* returned, before any task of the server runs
Restart ==
    /\ LET r == Load(EmptyMap, EmptyMap, file)
       IN /\ lastLoad' = [on |-> "fresh", outcome |-> r.outcome]
          /\ Users' = r.users
          /\ Channels' = r.chans
          /\ mu' = IF r.outcome = "blocked" THEN Task.main ELSE 0
    /\ cstate' = [c \in Conns |-> "open"]
    /\ uNick' = [c \in Conns |-> ""]
    /\ uCall' = [c \in Conns |-> ""]
    /\ welcomes' = [c \in Conns |-> 0]
    /\ regBy' = [c \in Conns |-> ""]
    /\ lastCmd' = NoCmd
    /\ UNCHANGED <<file, lockVars, linkVars, outVars, readVars>>
    /\ UNCHANGED <<codecVars, tokVars, muxVars, brVars>>

\* Load is called on the running server
LoadLive ==
    /\ mu = 0
    /\ LET r == Load(Users, Channels, file)
       IN /\ lastLoad' = [on |-> "live", outcome |-> r.outcome]
          /\ Users' = r.users
          /\ Channels' = r.chans
          /\ mu' = IF r.outcome = "blocked" THEN Task.main ELSE 0
    /\ UNCHANGED <<cstate, uNick, uCall, welcomes, regBy, lastCmd>>
    /\ UNCHANGED <<file, lockVars, linkVars, outVars, readVars>>
    /\ UNCHANGED <<codecVars, tokVars, muxVars, brVars>>

\* Serve starts, and the connections are served, once Load has returned
Started == ~(lastLoad.on = "fresh" /\ lastLoad.outcome = "blocked")

NextSnap ==
    \/ Started /\ NextDirectory
    \/ Started /\ SnapSave
    \/ Started /\ LoadLive
    \/ Restart

SpecSnap == InitIrc /\ [][NextSnap]_vars

\* The member keys of saved channel n that name a user of the reloaded Directory
Resolved(n) == {k \in {ToLower(x) : x \in file.Channels[n].Users} : k \in DOMAIN Users'}

\* C22: Load into a fresh server of what Save wrote returns, the reloaded
\* server has the saved channels, and every channel's members are the saved
\* member nicks that name a user of the reloaded Directory, each under its
\* lowercase nick and each the user the reloaded Directory holds.
C22_SaveLoad ==
    [][(Restart /\ file.written) =>
        /\ lastLoad'.outcome = "ok"
        /\ DOMAIN Channels' = DOMAIN file.Channels
        /\ \A n \in DOMAIN file.Channels :
            /\ DOMAIN Channels'[n].Users = Resolved(n)
            /\ \A k \in Resolved(n) : Channels'[n].Users[k] = Users'[k]]_vars

\* Load returns when no saved channel has a member, and the reloaded
\* Directory then holds the saved users under the saved keys
C22_NoMembers ==
    [][(Restart /\ file.written /\ \A n \in DOMAIN file.Channels : file.Channels[n].Users = {}) =>
        /\ lastLoad'.outcome = "ok"
        /\ DOMAIN Channels' = DOMAIN file.Channels
        /\ DOMAIN Users' = DOMAIN file.Users
        /\ \A k \in DOMAIN Users' : NickOf(Users'[k]) = file.Users[k]]_vars

\* Load never returns when a saved channel has a member
C22_MembersBlock ==
    [][(Restart /\ \E n \in DOMAIN file.Channels : file.Channels[n].Users # {}) =>
        lastLoad'.outcome = "blocked"]_vars

\* A connected local user is in the Directory
LiveLocal == \E k \in DOMAIN Users : IsLocal(Users[k]) /\ cstate[Users[k]] # "closed"

\* C23: when the Directory holds a connected local user, Load fails with an
\* error and leaves the users and the channels of the Directory as they were.
C23_LoadRefused ==
    [][(LoadLive /\ LiveLocal) =>
        /\ lastLoad'.outcome = "refused"
        /\ Users' = Users
        /\ Channels' = Channels
        /\ mu' = 0]_vars

\* Load has refused while a connected local user was in the Directory and the
\* state file held other users and channels than the Directory
C23_Witness ==
    /\ lastLoad = [on |-> "live", outcome |-> "refused"]
    /\ LiveLocal
    /\ file.written
    /\ DOMAIN file.Users # DOMAIN Users
    /\ DOMAIN file.Channels # DOMAIN Channels

----------------------------------------------------------------------------
(* SpecArgs: command lines whose parameters are missing, next to the
   commands of SpecBridge's connections.  A line is its verb and len(args),
   the verb included. *)

ShortLines ==
    {<<"NICK", 1>>, <<"MODE", 1>>, <<"PRIVMSG", 1>>, <<"PRIVMSG", 2>>,
     <<"NOTICE", 1>>, <<"NOTICE", 2>>, <<"USER", 1>>, <<"USER", 4>>,
     <<"JOIN", 1>>, <<"TOPIC", 1>>, <<"PART", 1>>, <<"WHOIS", 1>>}

\* What handleCommand and the handler of the verb do with a line of n
\* fields sent by a user with this nick and callsign: the numeric they
\* reply with, or "panic" when the handler indexes args past its end
ShortReply(verb, n, nick, call) ==
    IF ~GatePass(nick, verb) THEN "451"
    ELSE CASE verb \in {"NICK", "MODE"} -> IF n < 2 THEN "panic" ELSE ""
           [] verb \in {"PRIVMSG", "NOTICE"} ->
                IF n < 2 THEN "461" ELSE IF n < 3 THEN "panic" ELSE ""
           [] verb = "USER" -> IF call # "" THEN "462" ELSE IF n # 5 THEN "461" ELSE ""
           [] verb = "JOIN" -> IF n # 2 THEN "461" ELSE ""
           [] verb = "TOPIC" -> IF n < 2 THEN "461" ELSE ""
           [] verb = "PART" -> IF n = 1 THEN "461" ELSE ""
           [] verb = "WHOIS" -> IF n = 1 THEN "431" ELSE ""

\* Connection c sends the short line l.  part takes the lock before it looks
\* at its arguments; a panic in a connection's task ends the process.
CmdShort(c, l) ==
    /\ ~fatal
    /\ cstate[c] = "open"
    /\ LET r == ShortReply(l[1], l[2], uNick[c], uCall[c])
           waits == l[1] = "PART" /\ r # "451" /\ mu # 0
       IN /\ fatal' = (r = "panic")
          /\ cstate' = IF waits THEN [cstate EXCEPT ![c] = "blocked"] ELSE cstate
          /\ lastCmd' = CmdRecord(c, l[1], ~waits /\ r # "panic",
                                  IF waits \/ r = "panic" THEN <<>> ELSE <<r>>, 0, FALSE)
    /\ UNCHANGED <<uNick, uCall, Users, Channels, mu, welcomes, regBy>>
    /\ UNCHANGED <<lockOwner, taskPc, snapVars, linkVars, outVars, readVars>>
    /\ UNCHANGED <<codecVars, tokVars, muxVars, brVars>>

NextArgs ==
    /\ ~fatal
    /\ \/ NextDirectory
       \/ \E c \in Conns : \E l \in ShortLines : CmdShort(c, l)

SpecArgs == InitIrc /\ [][NextArgs]_vars

\* The handler has replied with one numeric and returned, the Directory is
\* as it was, and the connection and the server go on
ErrorReplied(c) ==
    /\ lastCmd'.done
    /\ Len(lastCmd'.replies) = 1
    /\ Users' = Users
    /\ Channels' = Channels
    /\ cstate'[c] = "open"
    /\ ~fatal'

\* C24: a verb sent with missing parameters gets a numeric error reply, the
\* Directory is unchanged, and neither the connection nor the server ends.
C24_ErrorReply ==
    [][\A c \in Conns : \A l \in ShortLines : CmdShort(c, l) => ErrorReplied(c)]_vars

\* The handlers that check len(args) before they index: every short line
\* but NICK and MODE without argument and PRIVMSG and NOTICE with only a
\* target, while the lock is free
C24_CheckedVerbs ==
    [][\A c \in Conns : \A l \in ShortLines :
        (CmdShort(c, l) /\ mu = 0 /\ ShortReply(l[1], l[2], uNick[c], uCall[c]) # "panic")
            => ErrorReplied(c)]_vars

----------------------------------------------------------------------------
(* Tokenizer claims on the error returns of Split, under SpecTok *)

\* buf holds two delimiters
Delimited(buf) ==
    /\ IndexByte(buf, FEND) # -1
    /\ \E e \in (C4_Start(buf) + 1) .. Len(buf) : buf[e] = FEND

\* The bytes between the first two delimiters of buf
Interior(buf) == SubSeq(buf, C4_Start(buf) + 1, C4_End(buf) - 1)

\* raw holds an escape byte followed by a byte other than TFEND and TFESC
BadEscape(raw) ==
    \E i \in 1 .. (Len(raw) - 1) : raw[i] = FESC /\ raw[i + 1] \notin {TFEND, TFESC}

\* C27: on a buffer with both delimiters of a frame whose interior holds an
\* escape byte followed by a byte other than 0xDC and 0xDD, Split fails with
\* the invalid-escape error and consumes exactly through the closing
\* delimiter, so that the bytes after it remain.
C27_InvalidEscape ==
    (lastRes # NoResult /\ Delimited(lastBuf) /\ BadEscape(Interior(lastBuf))) =>
        /\ lastRes.err = ErrInvalidEscape
        /\ lastRes.token = NilToken
        /\ lastRes.advance = C4_End(lastBuf)

\* Split fails with the invalid-escape error on such a buffer, and consumes
\* the whole buffer
C27_ConsumesAll ==
    (lastRes # NoResult /\ Delimited(lastBuf) /\ BadEscape(Interior(lastBuf))) =>
        /\ lastRes.err = ErrInvalidEscape
        /\ lastRes.token = NilToken
        /\ lastRes.advance = Len(lastBuf)

\* A call on a buffer with an invalid escape and bytes after the closing delimiter
C27_BytesAfter ==
    /\ lastRes # NoResult
    /\ Delimited(lastBuf)
    /\ BadEscape(Interior(lastBuf))
    /\ C4_End(lastBuf) < Len(lastBuf)

\* The three buffers of the end-of-stream rules
NoDelimiter(buf) == Len(buf) > 0 /\ IndexByte(buf, FEND) = -1
StartOnly(buf) == IndexByte(buf, FEND) # -1 /\ ~Delimited(buf)
EscapeLast(buf) ==
    /\ Delimited(buf)
    /\ Interior(buf) # <<>>
    /\ Interior(buf)[Len(Interior(buf))] = FESC

\* What the rules give for a buffer of one of the three kinds: with atEOF
\* everything is consumed and err returned, else nothing is consumed
EofRule(err) ==
    IF lastEof THEN lastRes = SplitResult(Len(lastBuf), NilToken, err)
    ELSE lastRes = SplitResult(0, NilToken, NoErr)

\* C28 as stated: at the end of the stream a buffer without delimiter is
\* consumed without token and error, a buffer with only a start delimiter is
\* consumed with the incomplete-frame error, a delimited frame whose last
\* interior byte is an escape is consumed with the incomplete-escape error;
\* before the end of the stream each of the three consumes nothing and
\* returns neither token nor error.
C28_EofRules ==
    lastRes # NoResult =>
        /\ NoDelimiter(lastBuf) => EofRule(NoErr)
        /\ StartOnly(lastBuf) => EofRule(ErrIncompleteFrame)
        /\ EscapeLast(lastBuf) => EofRule(ErrIncompleteEscape)

\* C28, amended: the same, the third rule for a frame whose interior holds no
\* escape byte followed by a byte other than 0xDC and 0xDD before its last
\* byte.
C28_EofRulesValidPrefix ==
    lastRes # NoResult =>
        /\ NoDelimiter(lastBuf) => EofRule(NoErr)
        /\ StartOnly(lastBuf) => EofRule(ErrIncompleteFrame)
        /\ (EscapeLast(lastBuf) /\ ~BadEscape(Interior(lastBuf))) => EofRule(ErrIncompleteEscape)

\* At the end of the stream Split has failed with the incomplete-escape
\* error on a buffer that goes on after the frame's closing delimiter
C28_Witness ==
    /\ lastRes # NoResult
    /\ lastEof
    /\ EscapeLast(lastBuf)
    /\ ~BadEscape(Interior(lastBuf))
    /\ C4_End(lastBuf) < Len(lastBuf)
    /\ lastRes = SplitResult(Len(lastBuf), NilToken, ErrIncompleteEscape)

----------------------------------------------------------------------------
(* SpecLink: the router of SpecMux with the bridge task as the one reader,
   on port TncPort, and Serve waiting on the exit channel.  The bytes of a
   queued frame stand for any line: what handleTNC does with a line is
   SpecBridge's matter, here it ends in one of the ways SpecBridge shows
   (the loop goes on, the task panics, the task waits for the lock
   forever).  A panic of the router or of the bridge ends the process. *)

LostTnc == "lost connection to TNC"

\* handleTNC: n, err := port.Read(buf); on an error the task returns and its
\* deferred s.Exit starts to send on the exit channel
BridgeRead ==
    /\ bridge = "run"
    /\ \/ /\ queue[TncPort] # <<>>
          /\ queue' = [queue EXCEPT ![TncPort] = Receive(@).rest]
          /\ nread' = [nread EXCEPT ![TncPort] = @ + 1]
          /\ lastRead' = [port |-> TncPort, n |-> Len(Receive(queue[TncPort]).frame),
                          frame |-> Receive(queue[TncPort]).frame, err |-> NoErr]
          /\ bridge' \in {"run", "panic", "blocked"}
       \/ /\ queue[TncPort] = <<>>
          /\ closeCount[TncPort] > 0
          /\ lastRead' = [port |-> TncPort, n |-> 0, frame |-> <<>>, err |-> "EOF"]
          /\ bridge' = "exit"
          /\ UNCHANGED <<queue, nread>>
    /\ UNCHANGED <<wire, tClosed, nseg, sbuf, serr, rpc, rport, rdata, ci, closeCount,
                   enq, ndrop, framingErr>>
    /\ UNCHANGED <<autoJoin, lastFrame, served>>
    /\ UNCHANGED <<codecVars, tokVars, ircVars, lockVars, snapVars, outVars, readVars>>

\* Exit: s.exitch <- err meets Serve: return <-s.exitch
ServeReturn ==
    /\ bridge = "exit"
    /\ served = ""
    /\ served' = LostTnc
    /\ bridge' = "done"
    /\ UNCHANGED <<autoJoin, lastFrame>>
    /\ UNCHANGED <<codecVars, tokVars, muxVars, ircVars, lockVars, snapVars, outVars, readVars>>

\* The steps of the router task
RouterStep ==
    \/ RouterScan
    \/ \E k \in 1 .. Len(wire) : RouterRead(k)
    \/ RouterReadEof
    \/ EnqCheck
    \/ EnqDiscard
    \/ EnqSend
    \/ RouterClose

\* The process runs until a task panics
Running == rpc # "panic" /\ bridge # "panic"

NextLink ==
    \/ \E id \in MuxSegIds : Deliver(id)
    \/ TransportClose
    \/ Running /\ RouterStep
    \/ Running /\ BridgeRead
    \/ Running /\ ServeReturn

\* Every task that can take a step is scheduled
SpecLink ==
    /\ InitMux
    /\ [][NextLink]_vars
    /\ WF_vars(Running /\ RouterStep)
    /\ WF_vars(Running /\ BridgeRead)
    /\ WF_vars(Running /\ ServeReturn)

\* C25: once the transport has ended, the bridge task's read returns
\* end-of-stream after the queued frames, the bridge signals the exit
\* condition, and Serve eventually returns the 'lost connection to TNC' error.
C25_LinkLossSignalled == tClosed ~> (served = LostTnc)

\* The router waits in enqueue's discard on a queue the reader has emptied
RouterStalled == rpc = "enq_discard" /\ queue[rport] = <<>>

\* After the end of the transport Serve returns the error, unless a task
\* has panicked, the bridge waits for the Directory lock, or the router is
\* stuck in enqueue
C25_SignalledOrStopped ==
    tClosed ~> (served = LostTnc \/ ~Running \/ bridge = "blocked" \/ RouterStalled)

\* Serve returns the error only after the bridge has read end-of-stream from
\* its closed and drained port
C25_OnlyAfterEof ==
    served = LostTnc => (closeCount[TncPort] = 1 /\ queue[TncPort] = <<>> /\ lastRead.err = "EOF")

\* Serve has returned the error after frames had been read from the port
C25_Served == served = LostTnc /\ tClosed /\ nread[TncPort] > 0

----------------------------------------------------------------------------
(* SpecJoin: the connections' NICK, USER and JOIN over two channel names *)

JoinNames == {"#a", "#b"}

NextJoin ==
    \E c \in Conns :
        \/ CmdNick(c, LocalNick(c))
        \/ CmdUser(c)
        \/ \E ch \in JoinNames : CmdJoin(c, ch)

SpecJoin == InitIrc /\ [][NextJoin]_vars

\* User c is a member of channel ch under its lowercase nick
MemberByKey(chans, c, ch) ==
    /\ ch \in DOMAIN chans
    /\ ToLower(uNick[c]) \in DOMAIN chans[ch].Users
    /\ chans[ch].Users[ToLower(uNick[c])] = c

\* C26: a join creates the channel if it is absent and puts the user into
\* its member map under the user's lowercase nick, once, leaving the other
\* members, the topic and every other channel as they were; a join of a
\* channel the user is already in changes nothing in the channel map.
C26_JoinIdempotent ==
    [][\A c \in Conns : \A ch \in JoinNames : CmdJoin(c, ch) =>
        /\ DOMAIN Channels' = DOMAIN Channels \cup {ch}
        /\ MemberByKey(Channels', c, ch)
        /\ Cardinality({k \in DOMAIN Channels'[ch].Users : Channels'[ch].Users[k] = c}) = 1
        /\ \A n \in DOMAIN Channels \ {ch} : Channels'[n] = Channels[n]
        /\ ch \in DOMAIN Channels =>
              /\ Channels'[ch].Topic = Channels[ch].Topic
              /\ DOMAIN Channels'[ch].Users = DOMAIN Channels[ch].Users \cup {ToLower(uNick[c])}
              /\ \A k \in DOMAIN Channels[ch].Users \ {ToLower(uNick[c])} :
                    Channels'[ch].Users[k] = Channels[ch].Users[k]
        /\ MemberByKey(Channels, c, ch) => Channels' = Channels
        /\ JoinInto(Channels', c, ch) = Channels']_vars

\* A user whose nick has capitals has joined a channel twice in a row, with
\* another user in it and the other channel in existence
C26_Witness ==
    /\ lastCmd.cmd = "JOIN"
    /\ ~lastCmd.changed
    /\ uNick[lastCmd.conn] # ToLower(uNick[lastCmd.conn])
    /\ \E ch \in JoinNames :
        /\ MemberByKey(Channels, lastCmd.conn, ch)
        /\ Cardinality(DOMAIN Channels[ch].Users) > 1
    /\ DOMAIN Channels = JoinNames

----------------------------------------------------------------------------
(* Multiplexer claims on routing and on the order of reads, under SpecMux *)

\* The router has taken a frame with a first byte from the scanner
Routed == rpc = "scan" /\ rpc' = "enq_check"

\* C29: every frame with a first byte is enqueued, without that byte, on
\* the one queue numbered by the high 4 bits of the byte, the other queues
\* staying as they are, and the port number the router computes is below 8.
C29_RoutedToOnePort ==
    [][/\ Routed => rport' \in Ports
       /\ EnqCheck => rpc' # "panic"
       /\ EnqSend =>
            /\ queue'[rport] = Append(queue[rport], rdata)
            /\ \A p \in Ports \ {rport} : queue'[p] = queue[p]]_vars

\* The port the router computes is the high 4 bits of the first byte, from
\* 0 to 15; a frame whose port is below 8 is enqueued on that queue alone
C29_HighNibble ==
    [][/\ Routed => rport' \in 0 .. 15
       /\ (EnqCheck /\ rport \in Ports) => rpc' # "panic"
       /\ EnqSend =>
            /\ rport \in Ports
            /\ queue'[rport] = Append(queue[rport], rdata)
            /\ \A p \in Ports \ {rport} : queue'[p] = queue[p]]_vars

\* Position in e of the oldest frame of the queue q that holds the last
\* Len(q) frames of e
HeadPos(q, e) == Len(e) - Len(q) + 1

\* C30: the frames read from a port are frames enqueued on it, at
\* positions of the enqueue order that only go up from one read to the
\* next (so they come in order, none twice, missing only what the router
\* discarded); a read takes place only when a frame is queued or the port is
\* closed, and reports end-of-stream only on a closed, empty queue.
C30_Fifo ==
    [][\A p \in Ports :
        /\ queue'[p] = C6_LastN(enq'[p], Len(queue'[p]))
        /\ HeadPos(queue'[p], enq'[p]) >= HeadPos(queue[p], enq[p])
        /\ PortRead(p) =>
            /\ queue[p] # <<>> \/ closeCount[p] > 0
            /\ queue[p] # <<>> =>
                /\ lastRead'.err = NoErr
                /\ lastRead'.frame = enq[p][HeadPos(queue[p], enq[p])]
                /\ HeadPos(queue'[p], enq'[p]) = HeadPos(queue[p], enq[p]) + 1
                /\ enq'[p] = enq[p]
            /\ queue[p] = <<>> => (lastRead'.err = "EOF" /\ queue'[p] = <<>>)]_vars

\* Three frames were enqueued on a port, the first was discarded, the
\* second and the third were read, the third last
C30_Witness ==
    \E p \in Ports :
        /\ Len(enq[p]) = QueueDepth + 1
        /\ ndrop[p] = 1
        /\ nread[p] = QueueDepth
        /\ enq[p][QueueDepth] # enq[p][QueueDepth + 1]
        /\ lastRead = [port |-> p, n |-> Len(enq[p][QueueDepth + 1]),
                       frame |-> enq[p][QueueDepth + 1], err |-> NoErr]


----------------------------------------------------------------------------
(* Remote users (C31), under SpecBridge *)

\* The frame passes handleTNC's filter: a bridged command and an identity
\* that parses
Accepted(f) == NArgs(f) >= 2 /\ ~Unwanted(f)

\* The frame names a target, and the target is a channel
ChannelTarget(f) == NArgs(f) >= 3 /\ IsChanName(f.rest[2])

\* What handleTNC leaves behind for frame f: the sender in the Directory,
\* added as a remote user if its nick was not there, and in the channel
SenderKnown(f) ==
    LET key == ToLower(ParseNick(f.id))
    IN /\ key \notin DOMAIN Users =>
             /\ key \in DOMAIN Users'
             /\ ~IsLocal(Users'[key])
             /\ NickOf(Users'[key]) = ParseNick(f.id)
             /\ Users' = MapPut(Users, key, Users'[key])
       /\ key \in DOMAIN Users => Users' = Users
       /\ ChannelTarget(f) =>
             /\ f.rest[2] \in DOMAIN Channels'
             /\ key \in DOMAIN Users'
             /\ Users'[key] \in MapRange(Channels'[f.rest[2]].Users)

\* C31: an accepted frame from a nick that is not in the Directory adds a
\* remote user under the lowercase nick, with no registration; if the target
\* is a channel, the channel exists afterwards with the originating user in
\* it; a frame from a nick that is in the Directory adds no user.
C31_RemoteInserted ==
    [][\A f \in Frames : (TncFrame(f) /\ Accepted(f)) => SenderKnown(f)]_vars

\* C31 for the frames handled with the Directory lock free and, for a channel
\* target, no other user under the sender's key in the channel.
C31_RemoteInsertedFreeKey ==
    [][\A f \in Frames :
          (TncFrame(f) /\ Accepted(f) /\ mu = 0 /\ (ChannelTarget(f) => KeyFree(f))) =>
              SenderKnown(f)]_vars

\* A frame to a channel from an unseen nick was handled: the remote user is
\* in the Directory and in the channel, beside a registered local user.
C31_RemoteSeen ==
    /\ lastFrame.outcome = "handled"
    /\ ChannelTarget(lastFrame.frame)
    /\ \E u \in RemoteIds :
          /\ "bob" \in DOMAIN Users /\ Users["bob"] = u
          /\ u \in Members("#a")
    /\ \E c \in Conns : Registered(c) /\ c \in DirUsers


----------------------------------------------------------------------------
(* SpecOut: the output path of one local user, connection 1.  Every
   fmt.Fprintf to the user is one call of User.Write, which hands the piece
   to the user's bufio.Writer and flushes it if the piece ends a line.  The
   writer is shared by the tasks that write to the user and has no lock of
   its own: calls made under the Directory lock exclude each other, calls
   made outside it run beside them.  bufio.Writer.Write copies the piece
   behind the bytes it holds and adds to its count; Flush writes the held
   bytes to the connection and resets the count, or, if the count has grown
   meanwhile, keeps the rest and fails for good (io.ErrShortWrite). *)

Piece(text, nl, locked) == [text |-> text, nl |-> nl, locked |-> locked]

\* The calls of User.Write each task makes, in order: connection 1 is in
\* joinChannel after its Unlock and writes the 353 reply (the prefix, a nick,
\* the line end), another connection sends the user two messages through
\* Server.send, the ping task a PING; all but the first under the lock
Prog(t) ==
    IF t = 1
    THEN << Piece("353 :", FALSE, FALSE), Piece("bob ", FALSE, FALSE),
            Piece("", TRUE, FALSE) >>
    ELSE IF t = Task.ping
    THEN << Piece("PING", TRUE, TRUE) >>
    ELSE << Piece("m1", TRUE, TRUE), Piece("m2", TRUE, TRUE) >>

\* The call task t is in
Cur(t) == Prog(t)[wpc[t].i]

InitOut ==
    /\ IrcIdle
    /\ BridgeIdle
    /\ ExtIdle
    /\ CodecIdle
    /\ TokIdle
    /\ MuxIdle

OutFrame == UNCHANGED <<cstate, uNick, uCall, Users, Channels, welcomes, regBy, lastCmd,
                        codecVars, tokVars, muxVars, brVars, lockVars, snapVars, linkVars,
                        readVars>>

\* s.Lock() before a write made under the Directory lock
Acquire(t) ==
    /\ wpc[t].i <= Len(Prog(t))
    /\ wpc[t].st = "call"
    /\ Cur(t).locked
    /\ mu = 0
    /\ mu' = t
    /\ wpc' = [wpc EXCEPT ![t].st = "write"]
    /\ UNCHANGED <<ubuf, connOut>>
    /\ OutFrame

\* The end of a call: the next call of the program
Return(t) == [i |-> wpc[t].i + 1, st |-> IF Cur(t).locked THEN "unlock" ELSE "call", k |-> 0]

\* u.buf.Write(piece): copy(b.buf[b.n:], p), then b.n += n
BufWrite(t) ==
    /\ wpc[t].i <= Len(Prog(t))
    /\ \/ /\ wpc[t].st = "write" \/ (wpc[t].st = "call" /\ ~Cur(t).locked)
          /\ IF ubuf.err
             THEN /\ wpc' = [wpc EXCEPT ![t].st = IF Cur(t).nl THEN "flush" ELSE "end"]
                  /\ ubuf' = ubuf
             ELSE /\ ubuf.n < WCap
                  /\ ubuf' = [ubuf EXCEPT !.buf[ubuf.n + 1] = Cur(t).text]
                  /\ wpc' = [wpc EXCEPT ![t].st = "count", ![t].k = ubuf.n]
       \/ /\ wpc[t].st = "count"
          /\ \E n \in {wpc[t].k + 1, ubuf.n + 1} :
                /\ n <= WCap
                /\ ubuf' = [ubuf EXCEPT !.n = n]
          /\ wpc' = [wpc EXCEPT ![t].st = IF Cur(t).nl THEN "flush" ELSE "end"]
    /\ UNCHANGED <<mu, connOut>>
    /\ OutFrame

\* u.buf.Flush(): b.wr.Write(b.buf[0:b.n]), then b.n = 0; a count that has
\* grown during the write is a short write
BufFlush(t) ==
    /\ wpc[t].i <= Len(Prog(t))
    /\ \/ /\ wpc[t].st = "flush"
          /\ wpc' = [wpc EXCEPT ![t].st = IF ubuf.err \/ ubuf.n = 0 THEN "end" ELSE "emit",
                                ![t].k = ubuf.n]
          /\ UNCHANGED <<ubuf, connOut>>
       \/ /\ wpc[t].st = "emit"
          /\ connOut' = connOut \o SubSeq(ubuf.buf, 1, wpc[t].k)
          /\ wpc' = [wpc EXCEPT ![t].st = "reset"]
          /\ UNCHANGED ubuf
       \/ /\ wpc[t].st = "reset"
          /\ LET k == wpc[t].k
             IN ubuf' = IF k < ubuf.n
                        THEN [buf |-> [i \in 1 .. WCap |->
                                         IF i <= ubuf.n - k THEN ubuf.buf[i + k]
                                         ELSE ubuf.buf[i]],
                              n |-> ubuf.n - k, err |-> TRUE]
                        ELSE [ubuf EXCEPT !.n = 0]
          /\ wpc' = [wpc EXCEPT ![t].st = "end"]
          /\ UNCHANGED connOut
    /\ UNCHANGED mu
    /\ OutFrame

\* User.Write returns; s.Unlock() after a write made under the lock
Release(t) ==
    /\ \/ /\ wpc[t].i <= Len(Prog(t))
          /\ wpc[t].st = "end"
          /\ wpc' = [wpc EXCEPT ![t] = Return(t)]
          /\ mu' = mu
       \/ /\ wpc[t].st = "unlock"
          /\ mu' = 0
          /\ wpc' = [wpc EXCEPT ![t].st = "call"]
    /\ UNCHANGED <<ubuf, connOut>>
    /\ OutFrame

NextOut == \E t \in Writers : Acquire(t) \/ BufWrite(t) \/ BufFlush(t) \/ Release(t)

SpecOut == InitOut /\ [][NextOut]_vars


----------------------------------------------------------------------------
(* Message order (C32), under SpecOut *)

\* The messages of the sending connection, in the order it issues them
Issued == <<"m1", "m2">>

IsMessage(p) == \E j \in DOMAIN Issued : Issued[j] = p

\* The messages of that sender that reached the user's connection, in order
Arrived == SelectSeq(connOut, IsMessage)

\* C32: the messages one sender sends to one receiver reach the receiver's
\* connection in the order the sender issued them, whatever the other tasks
\* write meanwhile: no message arrives after one that was issued later.
C32_SenderOrder ==
    \A a, b \in DOMAIN Arrived :
        a < b => \E i, j \in DOMAIN Issued :
                    i <= j /\ Issued[i] = Arrived[a] /\ Issued[j] = Arrived[b]

\* The calls made under the Directory lock alone keep the order: as long as
\* no call has been made outside the lock, the messages arrive once each and
\* in the order issued.
C32_OrderUnderLock ==
    wpc[1] = WriterStart =>
        /\ Len(Arrived) <= Len(Issued)
        /\ Arrived = SubSeq(Issued, 1, Len(Arrived))

\* Both messages arrived in order with the PING between them
C32_Arrived ==
    /\ wpc[1] = WriterStart
    /\ connOut = <<"m1", "PING", "m2">>


----------------------------------------------------------------------------
(* The Directory lock (C33), under SpecIrc *)

\* C33: no operation asks for the Directory lock while its own task holds
\* it: every handler that takes the lock returns it, so the lock is free
\* whenever no handler runs, and no connection waits for it forever.
C33_LockDeadlockFree ==
    /\ mu = 0
    /\ \A c \in Conns : cstate[c] # "blocked"

\* The handlers that do not return the lock are PART and QUIT of a channel
\* member; every other handler leaves the lock free, and a connection waits
\* forever only behind one of those two.
C33_OnlyPartAndQuit ==
    [][(mu = 0 /\ mu' # 0) =>
          /\ lastCmd'.cmd \in {"PART", "QUIT"}
          /\ mu' = lastCmd'.conn
          /\ cstate'[mu'] = "blocked"
          /\ \E n \in DOMAIN Channels : ToLower(uNick[mu']) \in DOMAIN Channels[n].Users]_vars

\* A registered member of a channel sent PART and waits for the lock it holds
C33_PartDeadlocked ==
    /\ lastCmd.cmd = "PART"
    /\ mu = lastCmd.conn
    /\ Registered(mu)
    /\ cstate[mu] = "blocked"


----------------------------------------------------------------------------
(* enqueue beside a reader (C34), under SpecMux *)

\* C34: with a reader draining the port beside the router, enqueue discards
\* a queued frame only from a queue that is full at that moment, and the
\* router never waits in enqueue's discard on a queue the reader has emptied.
C34_DiscardOnlyWhenFull ==
    [][/\ EnqDiscard => free(queue[rport]) = 0
       /\ ~RouterStalled']_vars

\* What enqueue does keep: the router is the only sender, so its send always
\* finds room, and it goes to the discard only for a port of the array.
C34_SendNeverWaits ==
    /\ rpc = "enq_send" => free(queue[rport]) > 0
    /\ rpc = "enq_discard" => rport \in Ports

\* The router waits in the discard on a queue emptied by the reader, with a
\* frame in its hand and more bytes on the wire
C34_Stalled ==
    /\ RouterStalled
    /\ nread[rport] = QueueDepth
    /\ ndrop[rport] = 0


----------------------------------------------------------------------------
(* Empty frames (C35), under SpecMux *)

\* The router's scanner hands it a token
TokenScanned == rpc = "scan" /\ ScanStep(sbuf, serr).next = "token"

ScannedToken == ScanStep(sbuf, serr).res.token[1]

\* C35: two adjacent delimiters never end the router task: every token whose
\* first byte the router reads has at least one byte, and the router goes
\* on after it.
C35_EmptyFrameSkipped ==
    [][(RouterScan /\ TokenScanned) =>
          /\ Len(ScannedToken) >= 1
          /\ rpc' # "panic"]_vars

\* A token of at least one byte is taken to enqueue with the port of its
\* first byte and the rest as data; the router ends at this statement only
\* on an empty token.
C35_NonEmptyRouted ==
    [][(RouterScan /\ TokenScanned) =>
          IF Len(ScannedToken) >= 1
          THEN /\ rpc' = "enq_check"
               /\ rdata' = Tail(ScannedToken)
          ELSE rpc' = "panic"]_vars

\* The router has ended on an empty token, after it had enqueued a frame
\* and with bytes of the stream still unread
C35_EndedOnEmpty ==
    /\ rpc = "panic"
    /\ rport \in Ports
    /\ \E p \in Ports : enq[p] # <<>>
    /\ sbuf \o wire # <<>>


----------------------------------------------------------------------------
(* Radio echo (C36), under SpecBridge *)

\* C36: handling a frame read from the radio link never transmits on the
\* radio link, whatever the frame and the Directory, also when the frame's
\* identity names a nick that a local user holds.
C36_NoRadioEcho ==
    [][\A f \in Frames : TncFrame(f) => lastFrame'.tx = 0]_vars

\* A frame is transmitted again exactly when it is handled and the user of
\* its nick in the Directory is a local one; a frame of a remote sender is
\* never transmitted.
C36_EchoOnlyForLocalNick ==
    [][\A f \in Frames :
          TncFrame(f) =>
              (lastFrame'.tx # 0 <=>
                  /\ lastFrame'.outcome = "handled"
                  /\ ToLower(ParseNick(f.id)) \in DOMAIN Users
                  /\ IsLocal(Users[ToLower(ParseNick(f.id))]))]_vars

\* A frame in the name of a registered local user went out on the radio again
C36_Echoed ==
    /\ lastFrame.outcome = "handled"
    /\ lastFrame.tx = 1
    /\ \E c \in Conns :
          /\ Registered(c)
          /\ ToLower(ParseNick(lastFrame.frame.id)) = ToLower(uNick[c])
          /\ Users[ToLower(uNick[c])] = c


----------------------------------------------------------------------------
(* Nick uniqueness (C37), under SpecIrc *)

\* Two distinct connections that are not closed hold the same nick, up to
\* letter case
SameNick(c, d) ==
    /\ c # d
    /\ cstate[c] # "closed" /\ cstate[d] # "closed"
    /\ uNick[c] # ""
    /\ ToLower(uNick[c]) = ToLower(uNick[d])

\* A Directory entry of a connected local user is given to another user
Overwritten(k) ==
    /\ k \in DOMAIN Users /\ k \in DOMAIN Users'
    /\ IsLocal(Users[k]) /\ cstate[Users[k]] # "closed"
    /\ Users'[k] # Users[k]

\* C37: under any interleaving of NICK and USER from different connections
\* no two connected local users hold nicks equal up to letter case, and the
\* registration of one connection never replaces the Directory entry of
\* another local user.
C37_UniqueLocalNicks ==
    [][/\ \A c, d \in Conns : ~SameNick(c, d)'
       /\ \A k \in DOMAIN Users : ~Overwritten(k)]_vars

\* What changeNick's test does give: a NICK is never granted for a nick whose
\* lowercase key is held in the Directory by another connection.
C37_DirectoryKeyRefused ==
    [][\A c \in Conns : \A n \in Nicks :
          (CmdNick(c, n) /\ ToLower(n) \in DOMAIN Users /\ Users[ToLower(n)] \in Conns \ {c})
              => (uNick'[c] = uNick[c] /\ Users' = Users)]_vars

\* Two connections took the same nick before either was registered; both
\* then registered, and the second took the first one's Directory entry
C37_Overwrote ==
    /\ SameNick(1, MaxConns)
    /\ Registered(1) /\ Registered(MaxConns)
    /\ regBy[1] = "USER" /\ regBy[MaxConns] = "USER"
    /\ "bob" \in DOMAIN Users /\ Cardinality(DOMAIN Users) = 1


----------------------------------------------------------------------------
(* Whole lines (C38), under SpecOut *)

\* The lines the tasks write, each as the pieces of its calls
WholeLines ==
    { <<"353 :", "bob ", "">>, <<"PING">>, <<"m1">>, <<"m2">> }

\* out consists of whole lines, followed by the start of one
RECURSIVE LinesOnly(_)
LinesOnly(out) ==
    IF out = <<>> THEN TRUE
    ELSE \E l \in WholeLines :
            IF Len(l) <= Len(out)
            THEN SubSeq(out, 1, Len(l)) = l /\ LinesOnly(SubSeq(out, Len(l) + 1, Len(out)))
            ELSE out = SubSeq(l, 1, Len(out))

\* C38: every line written to a user reaches the connection in one piece,
\* the membership list that joinChannel writes in several calls included:
\* what has reached the connection is a sequence of whole lines.
C38_LinesAtomic == LinesOnly(connOut)

\* The calls made under the Directory lock do not cut into each other: as
\* long as joinChannel has written nothing outside the lock, the connection
\* has received whole lines only.
C38_LinesAtomicUnderLock ==
    wpc[1] = WriterStart => (LinesOnly(connOut) /\ ~ubuf.err)

\* A message was written into the open membership list
C38_Spliced ==
    /\ Len(connOut) >= 2
    /\ connOut[1] = "353 :" /\ connOut[2] = "m1"
    /\ \A t \in Writers : wpc[t].st \notin {"count", "emit", "reset"}
    /\ wpc[1].i = 2 /\ wpc[1].st = "call"


----------------------------------------------------------------------------
(* Auto-join of members (C39), under SpecBridge *)

\* The local users that are members of the frame's channel and are joined
\* to it again while the frame is handled
JoinedAgain(f) == { u \in lastFrame'.joined : IsLocal(u) /\ u \in Members(f.rest[2]) }

\* C39: a local user who is a member of the target channel, whatever the
\* letter case of its nick, is not joined again, and so is sent no further
\* JOIN, when a frame to that channel arrives.
C39_JoinedOnce ==
    [][\A f \in Frames : (TncFrame(f) /\ ChannelTarget(f)) => JoinedAgain(f) = {}]_vars

\* The members joined again are those whose nick has a capital letter: the
\* loop looks the member up under the nick as typed, and the channel holds
\* it under the lowercase nick.
C39_LowercaseJoinedOnce ==
    [][\A f \in Frames :
          (TncFrame(f) /\ ChannelTarget(f)) =>
              \A u \in JoinedAgain(f) :
                  /\ autoJoin
                  /\ NickOf(u) # ToLower(NickOf(u))
                  /\ NickOf(u) \notin DOMAIN Channels[f.rest[2]].Users]_vars

\* The registered member BOB of #a was joined to #a again by a frame
C39_Rejoined ==
    /\ lastFrame.outcome = "handled"
    /\ ChannelTarget(lastFrame.frame)
    /\ ParseNick(lastFrame.frame.id) = "bob"
    /\ 1 \in lastFrame.joined
    /\ Registered(1) /\ uNick[1] = "BOB"
    /\ lastCmd.conn = 1 /\ lastCmd.cmd = "JOIN"
    /\ "#a" \in DOMAIN Channels /\ DOMAIN Channels["#a"].Users = {"bob"}


----------------------------------------------------------------------------
(* SpecRead: port.Read as the bridge task calls it.  handleTNC makes one
   array of cap(buf) bytes, and in every round of its loop cuts buf to its
   first len(buf) bytes, reads one frame into it and cuts buf to buf[:n]. *)

\* The frames a port's queue can hold
ReadFrames == UNION { [1 .. l -> {65, 66}] : l \in 0 .. MaxRead }

\* port.Read on a queued frame: copy(data, frame) copies as many bytes as
\* both hold; return len(frame), nil
PortReadInto(data, frame) ==
    LET m == IF Len(frame) < Len(data) THEN Len(frame) ELSE Len(data)
    IN [data |-> [i \in 1 .. Len(data) |-> IF i <= m THEN frame[i] ELSE data[i]],
        n |-> Len(frame)]

InitRead ==
    /\ IrcIdle
    /\ BridgeIdle
    /\ ExtIdle
    /\ CodecIdle
    /\ TokIdle
    /\ MuxIdle

\* One round of handleTNC's loop on the queued frame: buf = buf[0:1024],
\* n, err := port.Read(buf), buf = buf[:n]
ReadCall(frame) ==
    /\ rdRes.reads < MaxRounds
    /\ LET r == PortReadInto(SubSeq(rdArr, 1, BufLen), frame)
           arr == [i \in 1 .. BufCap |-> IF i <= BufLen THEN r.data[i] ELSE rdArr[i]]
       IN /\ rdArr' = arr
          /\ rdRes' = [frame |-> frame, n |-> r.n, view |-> SubSeq(arr, 1, r.n),
                       reads |-> rdRes.reads + 1]
    /\ UNCHANGED <<codecVars, tokVars, muxVars, ircVars, brVars>>
    /\ UNCHANGED <<lockVars, snapVars, linkVars, outVars>>

NextRead == \E frame \in ReadFrames : ReadCall(frame)

SpecRead == InitRead /\ [][NextRead]_vars

\* C40: port.Read never reports more bytes than it copied: n is at most
\* len(buf) for every length of the queued frame, and buf[:n] holds exactly
\* the first n bytes of the frame.
C40_CountWithinBuffer ==
    [][\A frame \in ReadFrames :
          ReadCall(frame) =>
              /\ rdRes'.n <= BufLen
              /\ rdRes'.view = SubSeq(frame, 1, rdRes'.n)]_vars

\* What Read does give: n is the length of the frame, the first len(buf)
\* bytes of the frame are in buf, and for a frame of at most len(buf) bytes
\* buf[:n] is the frame.
C40_CountIsFrameLength ==
    [][\A frame \in ReadFrames :
          ReadCall(frame) =>
              /\ rdRes'.n = Len(frame)
              /\ \A i \in 1 .. BufLen : i <= Len(frame) => rdRes'.view[i] = frame[i]
              /\ Len(frame) <= BufLen => rdRes'.view = frame]_vars

\* A frame longer than len(buf) was read after a shorter one: buf[:n] ends
\* with a byte that is not of the frame
C40_LongFrame ==
    /\ rdRes.reads > 1
    /\ Len(rdRes.frame) > BufLen
    /\ rdRes.n = Len(rdRes.frame)
    /\ rdRes.view # rdRes.frame

====
